---- MODULE Spec2Model ----
(***************************************************************************)
(* TaskFlow: the local persistent store (storage.service.ts), the entity   *)
(* services built on it and the WebDAV synchronisation engine              *)
(* (webdav.service.ts), as one state machine.                              *)
(*                                                                         *)
(* A JavaScript object is a function from its property names to values; a  *)
(* property whose value is undefined is absent from the domain.  A text    *)
(* (a key/value entry, a remote file, an import payload) is a record with  *)
(* a kind: no entry, unparseable bytes, or JSON holding a value.           *)
(*                                                                         *)
(* A handler is an operator from a world (the record of all state a        *)
(* handler can touch, plus the position of the failing I/O call) to the    *)
(* world it leaves behind; the thrown error is in err, the value returned  *)
(* in ret.  An action runs one whole handler.                              *)
(***************************************************************************)
EXTENDS Integers, Sequences, FiniteSets, TLC

VARIABLES
    cache,        \* StorageService.cache: Null or the cached GTDData object
    store,        \* AsyncStorage entry under STORAGE_KEY (a text)
    configStore,  \* AsyncStorage entry under WEBDAV_CONFIG_KEY (a text)
    client,       \* WebDAVService.client: Null or the client's configuration
    config,       \* WebDAVService.config: Null or {url, username, password}
    initDone,     \* the constructor's initializationPromise has settled
    remote,       \* the file at WEBDAV_FILE_PATH on the server (a text)
    remoteOrigin, \* who wrote the remote file last: "none", "engine", "other"
    now,          \* the clock: Date.now() when the last handler ran
    nextId,       \* generateId(): the next unused identifier
    saved,        \* every text a successful setItem(STORAGE_KEY, ..) wrote
    last,         \* the last handler run: its name, inputs, pre-state, outcome
    steps,        \* handlers run so far
    peer,         \* a second device on the same remote file: its cache and
                  \* backing entry; Null where there is one device
    trace,        \* the handlers run so far, where a property is about more
                  \* than the last one: who ran what, and whether it succeeded
    flight        \* the calls in flight, where handlers interleave at their
                  \* awaits: each call's position and locals; Null elsewhere

vars == <<cache, store, configStore, client, config, initDone, remote,
          remoteOrigin, now, nextId, saved, last, steps, peer, trace, flight>>

(***************************************************************************)
(* Bounds of the model.                                                    *)
(***************************************************************************)
\* handlers run by the user or by another device in one behaviour
MaxSteps == 2
\* I/O calls of one handler among which the failing one is chosen
MaxIO == 6

(***************************************************************************)
(* Program constants.                                                      *)
(***************************************************************************)
STORAGE_KEY == "@taskflow_gtd_data"
STORAGE_VERSION == "1.0.0"
WEBDAV_FILE_PATH == "/taskflow-data.json"
WEBDAV_CONFIG_KEY == "@taskflow_webdav_config"

(***************************************************************************)
(* JavaScript values.                                                      *)
(***************************************************************************)
Null == [null |-> TRUE]
NoErr == "none"
Void == "void"

\* o.k is not undefined (the values modelled under a tested key are truthy)
Has(o, k) == k \in DOMAIN o
Put(o, k, v) == [x \in (DOMAIN o) \cup {k} |-> IF x = k THEN v ELSE o[x]]
\* {...a, ...b}, the keys in undef being those b carries with value undefined
Spread(a, b, undef) ==
    [x \in ((DOMAIN a) \cup (DOMAIN b)) \ undef |->
        IF x \in DOMAIN b THEN b[x] ELSE a[x]]
\* o.k || d for a number-valued property
NumOr(o, k, d) == IF Has(o, k) /\ o[k] # 0 THEN o[k] ELSE d
\* o.k || d for a string-valued property
StrOr(o, k, d) == IF Has(o, k) /\ o[k] # "" THEN o[k] ELSE d

NoItem == [kind |-> "none"]
Garbage == [kind |-> "garbage"]
\* JSON.stringify(v, null, 2): properties with value undefined are not written
JSONstringify(v) == [kind |-> "json", value |-> v]
\* JSON.parse(t) throws a SyntaxError unless t is JSON text
JSONparses(t) == t.kind = "json"
JSONparse(t) == t.value

(***************************************************************************)
(* Worlds and I/O.  The failAt-th awaited I/O call of a handler rejects    *)
(* (failAt = 0: none does).  calls lists the I/O calls the handler made.   *)
(***************************************************************************)
Fails(w) == Len(w.calls) + 1 = w.failAt
Called(w, name) == [w EXCEPT !.calls = Append(@, name)]
Throw(w, e) == [w EXCEPT !.err = e, !.ret = Void]
Return(w, v) == [w EXCEPT !.ret = v]
Ok(w) == w.err = NoErr

\* AsyncStorage.getItem(key): null when there is no entry
getItem(w, key) ==
    IF Fails(w) THEN Throw(Called(w, "getItem!"), "AsyncStorage.getItem")
    ELSE Return(Called(w, "getItem"),
                IF key = STORAGE_KEY THEN w.store ELSE w.configStore)

\* AsyncStorage.setItem(key, text)
setItem(w, key, text) ==
    IF Fails(w) THEN Throw(Called(w, "setItem!"), "AsyncStorage.setItem")
    ELSE IF key = STORAGE_KEY
         THEN Return([Called(w, "setItem") EXCEPT !.store = text,
                                                  !.saved = @ \cup {text}], Void)
         ELSE Return([Called(w, "setItem") EXCEPT !.configStore = text], Void)

\* AsyncStorage.removeItem(key)
removeItem(w, key) ==
    IF Fails(w) THEN Throw(Called(w, "removeItem!"), "AsyncStorage.removeItem")
    ELSE IF key = STORAGE_KEY
         THEN Return([Called(w, "removeItem") EXCEPT !.store = NoItem], Void)
         ELSE Return([Called(w, "removeItem") EXCEPT !.configStore = NoItem], Void)

\* client.exists(path)
exists(w, path) ==
    IF Fails(w) THEN Throw(Called(w, "exists!"), "webdav.exists")
    ELSE Return(Called(w, "exists"),
                IF path = WEBDAV_FILE_PATH THEN w.remote # NoItem ELSE TRUE)

\* client.getFileContents(WEBDAV_FILE_PATH, {format: 'text'})
getFileContents(w) ==
    IF Fails(w) THEN Throw(Called(w, "getFileContents!"), "webdav.getFileContents")
    ELSE Return(Called(w, "getFileContents"), w.remote)

\* client.putFileContents(WEBDAV_FILE_PATH, text, {overwrite: true})
putFileContents(w, text) ==
    IF Fails(w) THEN Throw(Called(w, "putFileContents!"), "webdav.putFileContents")
    ELSE Return([Called(w, "putFileContents") EXCEPT !.remote = text,
                                                     !.remoteOrigin = "engine"], Void)

(***************************************************************************)
(* StorageService                                                          *)
(***************************************************************************)
getEmptyData ==
    [tasks |-> <<>>, projects |-> <<>>, tags |-> <<>>,
     version |-> STORAGE_VERSION]

\* saveData without the assignment this.cache = data
saveDataMutKeepsCache(w, data, aliased) ==
    LET stamped == Put(data, "version", STORAGE_VERSION)
        w1 == IF aliased THEN [w EXCEPT !.cache = stamped] ELSE w
        w2 == setItem(w1, STORAGE_KEY, JSONstringify(stamped))
    IN IF Ok(w2) THEN Return(w2, Void)
       ELSE Throw(w2, "Failed to save data to storage")

\* saveData(data).  data.version is assigned on the caller's object before
\* the write: when that object is the cached one (aliased), the cache shows
\* the assignment whether or not the write succeeds.
saveData(w, data, aliased) ==
    LET stamped == Put(data, "version", STORAGE_VERSION)
        w1 == IF aliased THEN [w EXCEPT !.cache = stamped] ELSE w
        w2 == setItem(w1, STORAGE_KEY, JSONstringify(stamped))
    IN IF Ok(w2) THEN Return([w2 EXCEPT !.cache = stamped], Void)
       ELSE Throw(w2, "Failed to save data to storage")

\* loadData taking an unparseable entry for a missing one
loadDataMutDiscards(w) ==
    LET w1 == getItem(w, STORAGE_KEY)
    IN IF ~Ok(w1) THEN Throw(w1, "Failed to load data from storage")
       ELSE IF w1.ret = NoItem \/ ~JSONparses(w1.ret)
       THEN LET w2 == saveData(w1, getEmptyData, FALSE)
            IN IF Ok(w2) THEN Return(w2, getEmptyData)
               ELSE Throw(w2, "Failed to load data from storage")
       ELSE Return([w1 EXCEPT !.cache = JSONparse(w1.ret)], JSONparse(w1.ret))

\* loadData()
loadData(w) ==
    LET w1 == getItem(w, STORAGE_KEY)
    IN IF ~Ok(w1) THEN Throw(w1, "Failed to load data from storage")
       ELSE IF w1.ret = NoItem
       THEN LET w2 == saveData(w1, getEmptyData, FALSE)
            IN IF Ok(w2) THEN Return(w2, getEmptyData)
               ELSE Throw(w2, "Failed to load data from storage")
       ELSE IF ~JSONparses(w1.ret)
       THEN Throw(w1, "Failed to load data from storage")
       ELSE Return([w1 EXCEPT !.cache = JSONparse(w1.ret)], JSONparse(w1.ret))

\* getData(): the cached object itself when there is one
getData(w) ==
    IF w.cache # Null THEN Return(w, w.cache) ELSE loadData(w)

\* !data.tasks || !data.projects || !data.tags is false
HasCollections(data) ==
    Has(data, "tasks") /\ Has(data, "projects") /\ Has(data, "tags")

\* importFromJson without the check of the three collections
importFromJsonMutNoValidation(w, jsonString) ==
    IF ~JSONparses(jsonString) THEN Throw(w, "Failed to import data")
    ELSE LET w1 == saveData(w, JSONparse(jsonString), FALSE)
         IN IF Ok(w1) THEN Return(w1, Void)
            ELSE Throw(w1, "Failed to import data")

\* importFromJson(jsonString): the parsed object is a fresh one
importFromJson(w, jsonString) ==
    IF ~JSONparses(jsonString) THEN Throw(w, "Failed to import data")
    ELSE LET data == JSONparse(jsonString)
         IN IF ~HasCollections(data)
            THEN Throw(w, "Failed to import data")
            ELSE LET w1 == saveData(w, data, FALSE)
                 IN IF Ok(w1) THEN Return(w1, Void)
                    ELSE Throw(w1, "Failed to import data")

\* seq with e inserted after the last element whose id is <= e.id
RECURSIVE InsertById(_, _)
InsertById(seq, e) ==
    IF seq = <<>> THEN <<e>>
    ELSE IF seq[Len(seq)].id <= e.id THEN Append(seq, e)
    ELSE Append(InsertById(SubSeq(seq, 1, Len(seq) - 1), e), seq[Len(seq)])

\* [...seq].sort((a, b) => a.id.localeCompare(b.id)): a stable sort by id
RECURSIVE SortById(_)
SortById(seq) ==
    IF seq = <<>> THEN <<>>
    ELSE InsertById(SortById(SubSeq(seq, 1, Len(seq) - 1)), seq[Len(seq)])

\* the digest of the collections in the order the Document holds them
calculateHashMutUnsorted(data) ==
    [tasks |-> data.tasks, projects |-> data.projects, tags |-> data.tags]

\* calculateHash(data): a digest of the three collections, each sorted by id.
\* The digest of a string is modelled by the string: no two contents collide.
calculateHash(data) ==
    [tasks |-> SortById(data.tasks), projects |-> SortById(data.projects),
     tags |-> SortById(data.tags)]

\* getSyncMetadata()
getSyncMetadata(w) ==
    LET w1 == getData(w)
    IN IF ~Ok(w1) THEN w1
       ELSE IF ~HasCollections(w1.ret) THEN Throw(w1, "TypeError")
       ELSE Return(w1, [lastSyncTimestamp |-> NumOr(w1.ret, "lastSync", 0),
                        syncHash |-> calculateHash(w1.ret),
                        conflictDetected |-> FALSE])

\* updateSyncMetadata(): lastSync and syncHash are assigned on the cached
\* object, then the object is saved
updateSyncMetadata(w) ==
    LET w1 == getData(w)
    IN IF ~Ok(w1) THEN w1
       ELSE IF ~HasCollections(w1.ret) THEN Throw(w1, "TypeError")
       ELSE LET data == w1.ret
                hash == calculateHash(data)
                stamped == Put(Put(data, "lastSync", w1.now), "syncHash", hash)
            IN saveData([w1 EXCEPT !.cache = stamped], stamped, TRUE)

\* clearAll()
clearAll(w) ==
    LET w1 == removeItem(w, STORAGE_KEY)
    IN IF Ok(w1) THEN Return([w1 EXCEPT !.cache = Null], Void)
       ELSE Throw(w1, "Failed to clear data")

(***************************************************************************)
(* TaskService                                                             *)
(***************************************************************************)
Pick(o, keys) == [k \in (DOMAIN o) \cap keys |-> o[k]]

\* seq.findIndex(e => e.id === id), 0 standing for -1
FindIndex(seq, id) ==
    IF \E i \in 1..Len(seq) : seq[i].id = id
    THEN CHOOSE i \in 1..Len(seq) :
            seq[i].id = id /\ \A j \in 1..(i - 1) : seq[j].id # id
    ELSE 0

\* the object literal of createTask
NewTask(taskData, id, t) ==
    Spread(Pick(taskData, {"description", "priority", "dueDate", "projectId"}),
           [id |-> id,
            title |-> StrOr(taskData, "title", ""),
            status |-> StrOr(taskData, "status", "inbox"),
            tagIds |-> IF Has(taskData, "tagIds") THEN taskData.tagIds ELSE <<>>,
            completed |-> FALSE,
            createdAt |-> t,
            updatedAt |-> t], {})

\* createTask(taskData): the new task is pushed onto the cached object's
\* tasks array, then the object is saved
createTask(w, taskData) ==
    LET w1 == getData(w)
    IN IF ~Ok(w1) THEN w1
       ELSE IF ~Has(w1.ret, "tasks") THEN Throw(w1, "TypeError")
       ELSE LET data == w1.ret
                newTask == NewTask(taskData, w1.nextId, w1.now)
                pushed == Put(data, "tasks", Append(data.tasks, newTask))
                w2 == saveData([w1 EXCEPT !.cache = pushed,
                                          !.nextId = @ + 1], pushed, TRUE)
            IN IF Ok(w2) THEN Return(w2, newTask) ELSE w2

\* updateTask without the promotion out of the inbox
PromoteMutNever(currentTask, updates, updatedTask) == updatedTask

\* the promotion applied whatever the current status is
PromoteMutAnyStatus(currentTask, updates, updatedTask) ==
    IF NumOr(updates, "dueDate", 0) # 0
       \/ (StrOr(updates, "status", "") # "" /\ updates.status # "inbox")
    THEN Put(updatedTask, "status", "next")
    ELSE updatedTask

\* the status-promotion rule of updateTask
Promote(currentTask, updates, updatedTask) ==
    IF Has(currentTask, "status") /\ currentTask.status = "inbox"
       /\ (NumOr(updates, "dueDate", 0) # 0
           \/ (StrOr(updates, "status", "") # ""
               /\ updates.status # "inbox"))
    THEN Put(updatedTask, "status", StrOr(updates, "status", "next"))
    ELSE updatedTask

\* updateTask adding the task when the Document does not hold the id
updateTaskMutUpserts(w, taskId, updates, undef) ==
    LET w1 == getData(w)
    IN IF ~Ok(w1) THEN w1
       ELSE IF ~Has(w1.ret, "tasks") THEN Throw(w1, "TypeError")
       ELSE LET data == w1.ret
                taskIndex == FindIndex(data.tasks, taskId)
                currentTask == IF taskIndex = 0 THEN [id |-> taskId]
                               ELSE data.tasks[taskIndex]
                merged == Spread(Spread(currentTask, updates, undef),
                                 [id |-> taskId, updatedAt |-> w1.now], {})
                updatedTask == Promote(currentTask, updates, merged)
                assigned == Put(data, "tasks",
                                IF taskIndex = 0 THEN Append(data.tasks, updatedTask)
                                ELSE [data.tasks EXCEPT ![taskIndex] = updatedTask])
                w2 == saveData([w1 EXCEPT !.cache = assigned], assigned, TRUE)
            IN IF Ok(w2) THEN Return(w2, updatedTask) ELSE w2

\* updateTask spreading the partial last, over id and updatedAt
updateTaskMutIdFromPartial(w, taskId, updates, undef) ==
    LET w1 == getData(w)
    IN IF ~Ok(w1) THEN w1
       ELSE IF ~Has(w1.ret, "tasks") THEN Throw(w1, "TypeError")
       ELSE LET data == w1.ret
                taskIndex == FindIndex(data.tasks, taskId)
            IN IF taskIndex = 0 THEN Throw(w1, "Task not found")
               ELSE LET currentTask == data.tasks[taskIndex]
                        merged == Spread(Spread(currentTask,
                                                [id |-> taskId, updatedAt |-> w1.now], {}),
                                         updates, undef)
                        updatedTask == Promote(currentTask, updates, merged)
                        assigned == Put(data, "tasks",
                                        [data.tasks EXCEPT ![taskIndex] = updatedTask])
                        w2 == saveData([w1 EXCEPT !.cache = assigned], assigned, TRUE)
                    IN IF Ok(w2) THEN Return(w2, updatedTask) ELSE w2

\* updateTask(taskId, updates); undef: the keys updates gives as undefined
updateTask(w, taskId, updates, undef) ==
    LET w1 == getData(w)
    IN IF ~Ok(w1) THEN w1
       ELSE IF ~Has(w1.ret, "tasks") THEN Throw(w1, "TypeError")
       ELSE LET data == w1.ret
                taskIndex == FindIndex(data.tasks, taskId)
            IN IF taskIndex = 0 THEN Throw(w1, "Task not found")
               ELSE LET currentTask == data.tasks[taskIndex]
                        merged == Spread(Spread(currentTask, updates, undef),
                                         [id |-> taskId, updatedAt |-> w1.now], {})
                        updatedTask == Promote(currentTask, updates, merged)
                        assigned == Put(data, "tasks",
                                        [data.tasks EXCEPT ![taskIndex] = updatedTask])
                        w2 == saveData([w1 EXCEPT !.cache = assigned], assigned, TRUE)
                    IN IF Ok(w2) THEN Return(w2, updatedTask) ELSE w2

\* deleteTask refusing an id the Document does not hold
deleteTaskMutThrowsIfAbsent(w, taskId) ==
    LET w1 == getData(w)
    IN IF ~Ok(w1) THEN w1
       ELSE IF ~Has(w1.ret, "tasks") THEN Throw(w1, "TypeError")
       ELSE LET data == w1.ret
                keep(t) == t.id # taskId
                filtered == Put(data, "tasks", SelectSeq(data.tasks, keep))
            IN IF FindIndex(data.tasks, taskId) = 0
               THEN Throw(w1, "Task not found")
               ELSE saveData([w1 EXCEPT !.cache = filtered], filtered, TRUE)

\* deleteTask(taskId)
deleteTask(w, taskId) ==
    LET w1 == getData(w)
    IN IF ~Ok(w1) THEN w1
       ELSE IF ~Has(w1.ret, "tasks") THEN Throw(w1, "TypeError")
       ELSE LET data == w1.ret
                keep(t) == t.id # taskId
                filtered == Put(data, "tasks", SelectSeq(data.tasks, keep))
            IN saveData([w1 EXCEPT !.cache = filtered], filtered, TRUE)

\* completeTask(taskId)
completeTask(w, taskId) ==
    updateTask(w, taskId, [completed |-> TRUE, completedAt |-> w.now], {})

\* uncompleteTask clearing the flag only
uncompleteTaskMutKeepsStamp(w, taskId) ==
    updateTask(w, taskId, [completed |-> FALSE], {})

\* uncompleteTask(taskId): {completed: false, completedAt: undefined}
uncompleteTask(w, taskId) ==
    updateTask(w, taskId, [completed |-> FALSE], {"completedAt"})

\* the filter of archiveOldCompletedTasks
ArchiveKeeps(task, cutoffDate) ==
    IF ~task.completed THEN TRUE
    ELSE IF NumOr(task, "completedAt", 0) = 0 THEN TRUE
    ELSE task.completedAt > cutoffDate

\* archiveOldCompletedTasks(daysOld): returns the number of tasks removed
archiveOldCompletedTasks(w, daysOld) ==
    LET w1 == getData(w)
    IN IF ~Ok(w1) THEN w1
       ELSE IF ~Has(w1.ret, "tasks") THEN Throw(w1, "TypeError")
       ELSE LET data == w1.ret
                cutoffDate == w1.now - (daysOld * 24 * 60 * 60 * 1000)
                beforeCount == Len(data.tasks)
                keep(t) == ArchiveKeeps(t, cutoffDate)
                filtered == Put(data, "tasks", SelectSeq(data.tasks, keep))
                w2 == saveData([w1 EXCEPT !.cache = filtered], filtered, TRUE)
            IN IF Ok(w2) THEN Return(w2, beforeCount - Len(filtered.tasks))
               ELSE w2

\* getAllTasks()
getAllTasks(w) ==
    LET w1 == getData(w)
    IN IF ~Ok(w1) THEN w1
       ELSE IF ~Has(w1.ret, "tasks") THEN Throw(w1, "TypeError")
       ELSE Return(w1, w1.ret.tasks)

\* date.setHours(0, 0, 0, 0) on the instant t, in a zone whose local time is
\* tz milliseconds ahead of UTC: the start of t's local day
setHoursZero(t, tz) == t - ((t + tz) % (24 * 60 * 60 * 1000))
\* date.setDate(date.getDate() + 1): the same local time on the next day
setDateNext(t) == t + (24 * 60 * 60 * 1000)

\* getTodayTasks() with an upper limit that is part of the day
getTodayTasksMutInclusive(w, tz) ==
    LET w1 == getAllTasks(w)
    IN IF ~Ok(w1) THEN w1
       ELSE LET today == setHoursZero(w1.now, tz)
                tomorrow == setDateNext(today)
                shown(task) ==
                    IF task.completed THEN FALSE
                    ELSE IF NumOr(task, "dueDate", 0) = 0 THEN FALSE
                    ELSE task.dueDate >= today /\ task.dueDate <= tomorrow
            IN Return(w1, SelectSeq(w1.ret, shown))

\* getTodayTasks()
getTodayTasks(w, tz) ==
    LET w1 == getAllTasks(w)
    IN IF ~Ok(w1) THEN w1
       ELSE LET today == setHoursZero(w1.now, tz)
                tomorrow == setDateNext(today)
                shown(task) ==
                    IF task.completed THEN FALSE
                    ELSE IF NumOr(task, "dueDate", 0) = 0 THEN FALSE
                    ELSE task.dueDate >= today /\ task.dueDate < tomorrow
            IN Return(w1, SelectSeq(w1.ret, shown))

\* getTomorrowTasks()
getTomorrowTasks(w, tz) ==
    LET w1 == getAllTasks(w)
    IN IF ~Ok(w1) THEN w1
       ELSE LET tomorrow == setHoursZero(setDateNext(w1.now), tz)
                dayAfter == setDateNext(tomorrow)
                shown(task) ==
                    IF task.completed THEN FALSE
                    ELSE IF NumOr(task, "dueDate", 0) = 0 THEN FALSE
                    ELSE task.dueDate >= tomorrow /\ task.dueDate < dayAfter
            IN Return(w1, SelectSeq(w1.ret, shown))

\* getOverdueTasks()
getOverdueTasks(w, tz) ==
    LET w1 == getAllTasks(w)
    IN IF ~Ok(w1) THEN w1
       ELSE LET today == setHoursZero(w1.now, tz)
                shown(task) ==
                    IF task.completed THEN FALSE
                    ELSE IF NumOr(task, "dueDate", 0) = 0 THEN FALSE
                    ELSE task.dueDate < today
            IN Return(w1, SelectSeq(w1.ret, shown))

(***************************************************************************)
(* ProjectService and TagService                                           *)
(***************************************************************************)
\* updateProject(projectId, updates)
updateProject(w, projectId, updates) ==
    LET w1 == getData(w)
    IN IF ~Ok(w1) THEN w1
       ELSE IF ~Has(w1.ret, "projects") THEN Throw(w1, "TypeError")
       ELSE LET data == w1.ret
                projectIndex == FindIndex(data.projects, projectId)
            IN IF projectIndex = 0 THEN Throw(w1, "Project not found")
               ELSE LET updatedProject ==
                            Spread(Spread(data.projects[projectIndex], updates, {}),
                                   [id |-> projectId, updatedAt |-> w1.now], {})
                        assigned == Put(data, "projects",
                                        [data.projects EXCEPT
                                            ![projectIndex] = updatedProject])
                        w2 == saveData([w1 EXCEPT !.cache = assigned], assigned, TRUE)
                    IN IF Ok(w2) THEN Return(w2, updatedProject) ELSE w2

\* createProject(projectData)
createProject(w, projectData) ==
    LET w1 == getData(w)
    IN IF ~Ok(w1) THEN w1
       ELSE IF ~Has(w1.ret, "projects") THEN Throw(w1, "TypeError")
       ELSE LET data == w1.ret
                newProject ==
                    Spread(Pick(projectData, {"description", "goal", "color"}),
                           [id |-> w1.nextId,
                            name |-> StrOr(projectData, "name", ""),
                            archived |-> FALSE,
                            createdAt |-> w1.now,
                            updatedAt |-> w1.now], {})
                pushed == Put(data, "projects", Append(data.projects, newProject))
                w2 == saveData([w1 EXCEPT !.cache = pushed,
                                          !.nextId = @ + 1], pushed, TRUE)
            IN IF Ok(w2) THEN Return(w2, newProject) ELSE w2

\* seq.map(f)
Map(seq, f(_)) == [i \in 1..Len(seq) |-> f(seq[i])]

\* deleteProject deleting the project's tasks with it
deleteProjectMutCascades(w, projectId) ==
    LET w1 == getData(w)
    IN IF ~Ok(w1) THEN w1
       ELSE IF ~HasCollections(w1.ret) THEN Throw(w1, "TypeError")
       ELSE LET data == w1.ret
                keep(p) == p.id # projectId
                outside(task) == ~(Has(task, "projectId") /\ task.projectId = projectId)
                changed == Put(Put(data, "projects", SelectSeq(data.projects, keep)),
                               "tasks", SelectSeq(data.tasks, outside))
            IN saveData([w1 EXCEPT !.cache = changed], changed, TRUE)

\* deleteProject(projectId): projectId: undefined leaves the property unset
deleteProject(w, projectId) ==
    LET w1 == getData(w)
    IN IF ~Ok(w1) THEN w1
       ELSE IF ~HasCollections(w1.ret) THEN Throw(w1, "TypeError")
       ELSE LET data == w1.ret
                keep(p) == p.id # projectId
                unref(task) ==
                    IF Has(task, "projectId") /\ task.projectId = projectId
                    THEN Spread(task, [updatedAt |-> w1.now], {"projectId"})
                    ELSE task
                changed == Put(Put(data, "projects", SelectSeq(data.projects, keep)),
                               "tasks", Map(data.tasks, unref))
            IN saveData([w1 EXCEPT !.cache = changed], changed, TRUE)

\* String.prototype.toLowerCase on the names in use
toLowerCase(str) ==
    CASE str \in {"Work", "WORK"} -> "work"
      [] str \in {"Home", "HOME"} -> "home"
      [] str \in {"Monday", "MONDAY"} -> "monday"
      [] str \in {"Sonntag", "SONNTAG"} -> "sonntag"
      [] str \in {"Today", "TODAY"} -> "today"
      [] str \in {"Morgen", "MORGEN"} -> "morgen"
      [] OTHER -> str

\* the search for a tag of that name comparing the names as they are
FindByNameMutCaseSensitive(seq, named) ==
    IF Has(named, "name") /\ \E i \in 1..Len(seq) : seq[i].name = named.name
    THEN CHOOSE i \in 1..Len(seq) :
            seq[i].name = named.name /\ \A j \in 1..(i - 1) : seq[j].name # named.name
    ELSE 0

\* seq.find(t => t.name.toLowerCase() === name.toLowerCase()) as an index,
\* 0 when there is none; a name that is undefined matches nothing
FindByName(seq, named) ==
    IF Has(named, "name")
       /\ \E i \in 1..Len(seq) : toLowerCase(seq[i].name) = toLowerCase(named.name)
    THEN CHOOSE i \in 1..Len(seq) :
            /\ toLowerCase(seq[i].name) = toLowerCase(named.name)
            /\ \A j \in 1..(i - 1) :
                  toLowerCase(seq[j].name) # toLowerCase(named.name)
    ELSE 0

\* createTag(tagData)
createTag(w, tagData) ==
    LET w1 == getData(w)
    IN IF ~Ok(w1) THEN w1
       ELSE IF ~Has(w1.ret, "tags") THEN Throw(w1, "TypeError")
       ELSE LET data == w1.ret
                existing == FindByName(data.tags, tagData)
            IN IF existing # 0 THEN Return(w1, data.tags[existing])
               ELSE LET newTag ==
                            Spread(Pick(tagData, {"color"}),
                                   [id |-> w1.nextId,
                                    name |-> StrOr(tagData, "name", ""),
                                    createdAt |-> w1.now], {})
                        pushed == Put(data, "tags", Append(data.tags, newTag))
                        w2 == saveData([w1 EXCEPT !.cache = pushed,
                                                  !.nextId = @ + 1], pushed, TRUE)
                    IN IF Ok(w2) THEN Return(w2, newTag) ELSE w2

\* getOrCreateTag(tagName, color), color left undefined
getOrCreateTag(w, tagName) ==
    LET w1 == getData(w)
    IN IF ~Ok(w1) THEN w1
       ELSE IF ~Has(w1.ret, "tags") THEN Throw(w1, "TypeError")
       ELSE LET data == w1.ret
                existing == FindByName(data.tags, [name |-> tagName])
            IN IF existing # 0 THEN Return(w1, data.tags[existing])
               ELSE createTag(w1, [name |-> tagName])

\* array.filter(x => x !== id) on an array of ids
WithoutId(ids, id) == SelectSeq(ids, LAMBDA x : x # id)
\* array.includes(id)
Includes(ids, id) == \E i \in 1..Len(ids) : ids[i] = id

\* deleteTag removing the tag and leaving the tasks as they are
deleteTagMutKeepsReferences(w, tagId) ==
    LET w1 == getData(w)
    IN IF ~Ok(w1) THEN w1
       ELSE IF ~HasCollections(w1.ret) THEN Throw(w1, "TypeError")
       ELSE LET data == w1.ret
                keep(t) == t.id # tagId
                changed == Put(data, "tags", SelectSeq(data.tags, keep))
            IN saveData([w1 EXCEPT !.cache = changed], changed, TRUE)

\* deleteTag(tagId)
deleteTag(w, tagId) ==
    LET w1 == getData(w)
    IN IF ~Ok(w1) THEN w1
       ELSE IF ~HasCollections(w1.ret) THEN Throw(w1, "TypeError")
       ELSE LET data == w1.ret
                keep(t) == t.id # tagId
                unref(task) ==
                    IF Includes(task.tagIds, tagId)
                    THEN Spread(task, [tagIds |-> WithoutId(task.tagIds, tagId),
                                       updatedAt |-> w1.now], {})
                    ELSE task
                changed == Put(Put(data, "tags", SelectSeq(data.tags, keep)),
                               "tasks", Map(data.tasks, unref))
            IN saveData([w1 EXCEPT !.cache = changed], changed, TRUE)

\* updateTag(tagId, updates)
updateTag(w, tagId, updates) ==
    LET w1 == getData(w)
    IN IF ~Ok(w1) THEN w1
       ELSE IF ~Has(w1.ret, "tags") THEN Throw(w1, "TypeError")
       ELSE LET data == w1.ret
                tagIndex == FindIndex(data.tags, tagId)
            IN IF tagIndex = 0 THEN Throw(w1, "Tag not found")
               ELSE LET updatedTag ==
                            Spread(Spread(data.tags[tagIndex], updates, {}),
                                   [id |-> tagId], {})
                        assigned == Put(data, "tags",
                                        [data.tags EXCEPT ![tagIndex] = updatedTag])
                        w2 == saveData([w1 EXCEPT !.cache = assigned], assigned, TRUE)
                    IN IF Ok(w2) THEN Return(w2, updatedTag) ELSE w2

(***************************************************************************)
(* The date parser (utils/date-parser.ts).  A title is the sequence of its *)
(* words and of the white space between them, " " for each character of    *)
(* it; local time is tz milliseconds ahead of UTC.                         *)
(***************************************************************************)
WEEKDAYS_DE ==
    <<"montag", "dienstag", "mittwoch", "donnerstag", "freitag", "samstag", "sonntag">>
WEEKDAYS_EN ==
    <<"monday", "tuesday", "wednesday", "thursday", "friday", "saturday", "sunday">>

\* Date.prototype.getDay in zone tz: 0 is Sunday; the epoch was a Thursday
getDay(t, tz) == (((t + tz) \div (24 * 60 * 60 * 1000)) + 4) % 7
\* setHours(23, 59, 59, 999) in zone tz
setHoursEnd(t, tz) == setHoursZero(t, tz) + ((24 * 60 * 60 * 1000) - 1)
\* setDate(getDate() + days)
setDatePlus(t, days) == t + (days * (24 * 60 * 60 * 1000))

\* getNextWeekday that takes today for the target when today is that weekday
getNextWeekdayMutSameDay(t, tz, targetDay) ==
    LET currentDay == (getDay(t, tz) + 6) % 7
        daysUntilTarget == targetDay - currentDay
        days == IF daysUntilTarget < 0 THEN daysUntilTarget + 7 ELSE daysUntilTarget
    IN setHoursEnd(setDatePlus(t, days), tz)

\* getNextWeekday(targetDay), 0 for Monday to 6 for Sunday, called at t
getNextWeekday(t, tz, targetDay) ==
    LET currentDay == (getDay(t, tz) + 6) % 7
        daysUntilTarget == targetDay - currentDay
        days == IF daysUntilTarget <= 0 THEN daysUntilTarget + 7 ELSE daysUntilTarget
    IN setHoursEnd(setDatePlus(t, days), tz)

\* /\b(a|b)\b/i.test(lowerTitle): one of the words is one of the keywords
TestWords(title, keywords) ==
    \E i \in 1..Len(title) : toLowerCase(title[i]) \in keywords
\* String.prototype.trim: without the white space at either end
trim(str) ==
    LET inked == {i \in 1..Len(str) : str[i] # " "}
    IN IF inked = {} THEN <<>>
       ELSE SubSeq(str, CHOOSE i \in inked : \A j \in inked : i <= j,
                        CHOOSE i \in inked : \A j \in inked : j <= i)
\* str.replace(/\s+/g, ' '): each run of white space becomes one space
RECURSIVE ReplaceSpaces(_)
ReplaceSpaces(str) ==
    IF Len(str) < 2 THEN str
    ELSE IF str[1] = " " /\ str[2] = " " THEN ReplaceSpaces(Tail(str))
    ELSE <<str[1]>> \o ReplaceSpaces(Tail(str))
\* title.replace(/\b(a|b)\b/gi, '').trim()
ReplaceWords(title, keywords) ==
    trim(SelectSeq(title, LAMBDA word : toLowerCase(word) \notin keywords))
\* the index at which the loop over the weekday names breaks, 0 when it ends
FirstWeekday(title, names) ==
    IF \E i \in 1..Len(names) : TestWords(title, {names[i]})
    THEN CHOOSE i \in 1..Len(names) :
            /\ TestWords(title, {names[i]})
            /\ \A j \in 1..(i - 1) : ~TestWords(title, {names[j]})
    ELSE 0

\* the result returned as it is, empty title or not
OrOriginalMutEmpty(result, title) == result

\* if (!cleanedTitle && title.trim()) return {cleanedTitle: title.trim(), detectedDate}
OrOriginal(result, title) ==
    IF result.cleanedTitle = <<>> /\ trim(title) # <<>>
    THEN [result EXCEPT !.cleanedTitle = trim(title)]
    ELSE result

\* parseTaskTitle(title) called at w.now
parseTaskTitle(w, title, tz) ==
    LET none == [cleanedTitle |-> title]
        de == FirstWeekday(title, WEEKDAYS_DE)
        en == FirstWeekday(title, WEEKDAYS_EN)
        first ==
            IF TestWords(title, {"heute", "today"})
            THEN [cleanedTitle |-> ReplaceWords(title, {"heute", "today"}),
                  detectedDate |-> setHoursEnd(w.now, tz)]
            ELSE IF TestWords(title, {"morgen", "tomorrow"})
            THEN [cleanedTitle |-> ReplaceWords(title, {"morgen", "tomorrow"}),
                  detectedDate |-> setHoursEnd(setDatePlus(w.now, 1), tz)]
            ELSE IF de # 0
            THEN [cleanedTitle |-> ReplaceWords(title, {WEEKDAYS_DE[de]}),
                  detectedDate |-> getNextWeekday(w.now, tz, de - 1)]
            ELSE none
        second ==
            IF NumOr(first, "detectedDate", 0) = 0 /\ en # 0
            THEN [cleanedTitle |-> ReplaceWords(first.cleanedTitle, {WEEKDAYS_EN[en]}),
                  detectedDate |-> getNextWeekday(w.now, tz, en - 1)]
            ELSE first
        cleaned == [second EXCEPT !.cleanedTitle = trim(ReplaceSpaces(second.cleanedTitle))]
    IN [w EXCEPT !.ret = OrOriginal(cleaned, title)]

(***************************************************************************)
(* WebDAVService                                                           *)
(***************************************************************************)
\* A URL: its host, whether it ends with '/', whether it contains
\* '/remote.php/dav', and the user whose files path was appended to it.
\* initializeClient's normalisation of the URL
WebdavUrl(url, username) ==
    LET noSlash == [url EXCEPT !.slash = FALSE]
    IN IF ~noSlash.dav
       THEN [noSlash EXCEPT !.dav = TRUE, !.files = username]
       ELSE noSlash

\* initializeClient persisting the configuration before the probe
initializeClientMutSaveFirst(w, url, username, password, saveConfig) ==
    LET webdavUrl == WebdavUrl(url, username)
        cfg == [url |-> webdavUrl, username |-> username, password |-> password]
        w1 == [w EXCEPT !.client = cfg, !.config = cfg]
        w2 == IF saveConfig
              THEN setItem(w1, WEBDAV_CONFIG_KEY, JSONstringify(cfg))
              ELSE w1
    IN IF ~Ok(w2) THEN w2 ELSE exists(w2, "/")

\* initializeClient(url, username, password, saveConfig)
initializeClient(w, url, username, password, saveConfig) ==
    LET webdavUrl == WebdavUrl(url, username)
        cfg == [url |-> webdavUrl, username |-> username, password |-> password]
        w1 == [w EXCEPT !.client = cfg, !.config = cfg]
        w2 == exists(w1, "/")
    IN IF ~Ok(w2) THEN w2
       ELSE IF saveConfig
       THEN setItem(w2, WEBDAV_CONFIG_KEY, JSONstringify(cfg))
       ELSE Return(w2, Void)

\* loadAndInitialize(): every failure is caught and logged
loadAndInitialize(w) ==
    LET w1 == getItem(w, WEBDAV_CONFIG_KEY)
    IN IF ~Ok(w1) THEN Return([w1 EXCEPT !.err = NoErr], Void)
       ELSE IF w1.ret = NoItem THEN Return(w1, Void)
       ELSE IF ~JSONparses(w1.ret) THEN Return(w1, Void)
       ELSE LET c == JSONparse(w1.ret)
                w2 == initializeClient(w1, c.url, c.username, c.password, FALSE)
            IN Return([w2 EXCEPT !.err = NoErr], Void)

\* initialize(url, username, password)
initialize(w, url, username, password) ==
    LET w1 == initializeClient(w, url, username, password, TRUE)
    IN IF Ok(w1) THEN Return(w1, Void)
       ELSE Throw(w1, "Failed to connect to WebDAV server. Please check your credentials.")

\* isConfigured()
isConfigured(w) == w.client # Null /\ w.config # Null

\* getConfig()
getConfig(w) ==
    IF w.config = Null THEN Null
    ELSE [url |-> w.config.url, username |-> w.config.username]

\* disconnect() forgetting the client only, the entry left in place
disconnectMutKeepsEntry(w) ==
    Return([w EXCEPT !.client = Null, !.config = Null], Void)

\* disconnect()
disconnect(w) ==
    removeItem([w EXCEPT !.client = Null, !.config = Null], WEBDAV_CONFIG_KEY)

\* uploadData()
uploadData(w) ==
    IF w.client = Null THEN Throw(w, "WebDAV client not initialized")
    ELSE LET w1 == getData(w)
         IN IF ~Ok(w1) THEN Throw(w1, "Failed to upload data to server")
            ELSE LET w2 == putFileContents(w1, JSONstringify(w1.ret))
                 IN IF Ok(w2) THEN Return(w2, Void)
                    ELSE Throw(w2, "Failed to upload data to server")

\* downloadData(): null when there is no remote file
downloadData(w) ==
    IF w.client = Null THEN Throw(w, "WebDAV client not initialized")
    ELSE LET w1 == exists(w, WEBDAV_FILE_PATH)
         IN IF ~Ok(w1) THEN Throw(w1, "Failed to download data from server")
            ELSE IF ~w1.ret THEN Return(w1, Null)
            ELSE LET w2 == getFileContents(w1)
                 IN IF ~Ok(w2) \/ ~JSONparses(w2.ret)
                    THEN Throw(w2, "Failed to download data from server")
                    ELSE Return(w2, JSONparse(w2.ret))

SyncFailed ==
    [success |-> FALSE,
     message |-> "Sync failed. Please check your connection and try again."]
SyncInitial ==
    [success |-> TRUE,
     message |-> "Initial sync completed. Local data uploaded to server."]
SyncDownloaded ==
    [success |-> TRUE,
     message |-> "Sync completed. Downloaded updates from server."]
SyncUploaded ==
    [success |-> TRUE,
     message |-> "Sync completed. Uploaded local changes to server."]

\* the catch block of sync()
SyncCatch(w) == Return([w EXCEPT !.err = NoErr], SyncFailed)

\* the upload branch with updateSyncMetadata() before uploadData()
SyncUploadMutStampFirst(w, result) ==
    LET w1 == updateSyncMetadata(w)
    IN IF ~Ok(w1) THEN SyncCatch(w1)
       ELSE LET w2 == uploadData(w1)
            IN IF Ok(w2) THEN Return(w2, result) ELSE SyncCatch(w2)

\* uploadData(); updateSyncMetadata(); return result  -- inside sync()'s try
SyncUpload(w, result) ==
    LET w1 == uploadData(w)
    IN IF ~Ok(w1) THEN SyncCatch(w1)
       ELSE LET w2 == updateSyncMetadata(w1)
            IN IF Ok(w2) THEN Return(w2, result) ELSE SyncCatch(w2)

\* the download branch without saveData(remoteData)
SyncDownloadMutKeepsLocal(w, remoteData) ==
    LET w1 == updateSyncMetadata(w)
    IN IF Ok(w1) THEN Return(w1, SyncDownloaded) ELSE SyncCatch(w1)

\* saveData(remoteData); updateSyncMetadata(); return result  -- inside the try
SyncDownload(w, remoteData) ==
    LET w1 == saveData(w, remoteData, FALSE)
    IN IF ~Ok(w1) THEN SyncCatch(w1)
       ELSE LET w2 == updateSyncMetadata(w1)
            IN IF Ok(w2) THEN Return(w2, SyncDownloaded) ELSE SyncCatch(w2)

\* the comparison reversed
RemoteIsNewerMutOlder(localData, remoteData) ==
    NumOr(remoteData, "lastSync", 0) < NumOr(localData, "lastSync", 0)

\* the comparison with >= for >
RemoteIsNewerMutOrEqual(localData, remoteData) ==
    NumOr(remoteData, "lastSync", 0) >= NumOr(localData, "lastSync", 0)

\* the comparison of sync(): (remoteData.lastSync || 0) > (localData.lastSync || 0)
RemoteIsNewer(localData, remoteData) ==
    NumOr(remoteData, "lastSync", 0) > NumOr(localData, "lastSync", 0)

\* sync()
sync(w) ==
    IF w.client = Null THEN Throw(w, "WebDAV client not initialized")
    ELSE LET w1 == getData(w)
         IN IF ~Ok(w1) THEN SyncCatch(w1)
            ELSE LET localData == w1.ret
                     w2 == downloadData(w1)
                 IN IF ~Ok(w2) THEN SyncCatch(w2)
                    ELSE IF w2.ret = Null THEN SyncUpload(w2, SyncInitial)
                    ELSE LET remoteData == w2.ret
                         IN IF RemoteIsNewer(localData, remoteData)
                            THEN SyncDownload(w2, remoteData)
                            ELSE SyncUpload(w2, SyncUploaded)

\* forcePush()
forcePush(w) ==
    LET w1 == uploadData(w)
    IN IF ~Ok(w1) THEN w1 ELSE updateSyncMetadata(w1)

\* forcePull() overwriting the local Document only when sync() would have
forcePullMutCompares(w) ==
    LET w1 == downloadData(w)
    IN IF ~Ok(w1) THEN w1
       ELSE IF w1.ret = Null THEN Throw(w1, "No data found on server")
       ELSE IF ~RemoteIsNewer(IF w1.cache # Null THEN w1.cache
                              ELSE IF JSONparses(w1.store)
                              THEN JSONparse(w1.store)
                              ELSE getEmptyData, w1.ret)
       THEN updateSyncMetadata(w1)
       ELSE LET w2 == saveData(w1, w1.ret, FALSE)
            IN IF ~Ok(w2) THEN w2 ELSE updateSyncMetadata(w2)

\* forcePull()
forcePull(w) ==
    LET w1 == downloadData(w)
    IN IF ~Ok(w1) THEN w1
       ELSE IF w1.ret = Null THEN Throw(w1, "No data found on server")
       ELSE LET w2 == saveData(w1, w1.ret, FALSE)
            IN IF ~Ok(w2) THEN w2 ELSE updateSyncMetadata(w2)

(***************************************************************************)
(* The state machine                                                       *)
(***************************************************************************)
\* what a handler starting now finds; Date.now() has moved on by one
World(f) ==
    [cache |-> cache, store |-> store, configStore |-> configStore,
     client |-> client, config |-> config, remote |-> remote,
     remoteOrigin |-> remoteOrigin, now |-> now + 1, nextId |-> nextId,
     saved |-> saved, calls |-> <<>>, failAt |-> f, err |-> NoErr, ret |-> Void]

Pre ==
    [cache |-> cache, store |-> store, configStore |-> configStore,
     client |-> client, config |-> config, remote |-> remote, now |-> now]

\* one device, running its handlers one after the other
Alone == peer = Null /\ trace = <<>> /\ flight = Null

\* the state a handler leaves, and the record of its run
Leaves(op, arg, r) ==
    /\ UNCHANGED <<peer, trace, flight>>
    /\ cache' = r.cache
    /\ store' = r.store
    /\ configStore' = r.configStore
    /\ client' = r.client
    /\ config' = r.config
    /\ remote' = r.remote
    /\ remoteOrigin' = r.remoteOrigin
    /\ now' = r.now
    /\ nextId' = r.nextId
    /\ saved' = r.saved
    /\ last' = [op |-> op, arg |-> arg, pre |-> Pre, err |-> r.err,
                ret |-> r.ret, calls |-> r.calls]

Handled(op, arg, r) ==
    /\ steps < MaxSteps
    /\ steps' = steps + 1
    /\ UNCHANGED initDone
    /\ Leaves(op, arg, r)

FailAts == 0..MaxIO

(* Inputs *)
Url1 == [host |-> "cloud", slash |-> TRUE, dav |-> FALSE, files |-> ""]
Url2 == [host |-> "cloud", slash |-> FALSE, dav |-> TRUE, files |-> ""]
Urls == {Url1, Url2}
StoredConfig ==
    [url |-> WebdavUrl(Url1, "user"), username |-> "user", password |-> "pw0"]

\* a task of this device from an earlier run, and a task of another device
Task1 == NewTask([title |-> "a"], 1, 1)
Task9 == NewTask([title |-> "z", status |-> "waiting"], 9, 1)
Doc1 == [getEmptyData EXCEPT !.tasks = <<Task1>>]
\* Doc1 as a successful sync at time 1 left it
Doc1Synced ==
    Put(Put(Doc1, "lastSync", 1), "syncHash", calculateHash(Doc1))
\* the Document of another device whose last sync was at time t (0: never)
OtherDoc(t) ==
    LET d == [getEmptyData EXCEPT !.tasks = <<Task9>>]
    IN IF t = 0 THEN d
       ELSE Put(Put(d, "lastSync", t), "syncHash", calculateHash(d))

InitStores == {NoItem, Garbage, JSONstringify(Doc1Synced)}
InitConfigStores == {NoItem, JSONstringify(StoredConfig)}
\* what the other device may have left: unparseable bytes, or its Document
\* last synced never, long ago, or after anything this device did
RemoteTexts ==
    {Garbage} \cup {JSONstringify(OtherDoc(t)) : t \in {0, 1, now + 2}}
Payloads ==
    {Garbage,
     JSONstringify([tasks |-> <<>>, projects |-> <<>>, version |-> "0.9"]),
     JSONstringify([projects |-> <<>>, tags |-> <<>>]),
     JSONstringify([tasks |-> <<>>, tags |-> <<>>]),
     JSONstringify([tasks |-> <<Task9>>, projects |-> <<>>, tags |-> <<>>]),
     JSONstringify(OtherDoc(2))}
TaskDatas == {[title |-> "b"], [title |-> "c", dueDate |-> 2]}
\* the task of the earlier run, the first task created in this one
TaskIds == {1, 2}
Updates ==
    {[set |-> [status |-> "waiting"], undef |-> {}],
     [set |-> [dueDate |-> 3], undef |-> {}],
     [set |-> [completed |-> FALSE], undef |-> {"completedAt"}]}

Init ==
    /\ cache = Null
    /\ store \in InitStores
    /\ configStore \in InitConfigStores
    /\ client = Null
    /\ config = Null
    /\ initDone = FALSE
    /\ remote = NoItem
    /\ remoteOrigin = "none"
    /\ now = 1
    /\ nextId = 2
    /\ saved = IF JSONparses(store) THEN {store} ELSE {}
    /\ last = [op |-> "none", arg |-> Void, pre |-> Pre, err |-> NoErr,
               ret |-> Void, calls |-> <<>>]
    /\ steps = 0
    /\ Alone

\* The constructor's loadAndInitialize() settles.  It reads and writes only
\* client, config and the configuration entry, so it commutes with every
\* handler but initialize() and disconnect(): it is taken first or right
\* after one of these.
LoadAndInitialize ==
    /\ ~initDone
    /\ steps = 0 \/ last.op \in {"initialize", "disconnect"}
    /\ initDone' = TRUE
    /\ UNCHANGED steps
    /\ \E f \in FailAts : Leaves("loadAndInitialize", Void, loadAndInitialize(World(f)))

Initialize ==
    \E f \in FailAts, url \in Urls :
        Handled("initialize", url, initialize(World(f), url, "user", "pw1"))

Disconnect ==
    \E f \in FailAts : Handled("disconnect", Void, disconnect(World(f)))

\* sync(), forcePush() and forcePull() first await the initializationPromise
Sync ==
    /\ initDone
    /\ \E f \in FailAts : Handled("sync", Void, sync(World(f)))

ForcePush ==
    /\ initDone
    /\ \E f \in FailAts : Handled("forcePush", Void, forcePush(World(f)))

ForcePull ==
    /\ initDone
    /\ \E f \in FailAts : Handled("forcePull", Void, forcePull(World(f)))

\* another device, or the server's owner, rewrites or removes the remote file
RemoteChange ==
    /\ steps < MaxSteps
    /\ steps' = steps + 1
    /\ \E t \in RemoteTexts :
        /\ t # remote
        /\ remote' = t
        /\ remoteOrigin' = "other"
    /\ now' = now + 1
    /\ last' = [op |-> "remoteChange", arg |-> Void, pre |-> Pre, err |-> NoErr,
                ret |-> Void, calls |-> <<>>]
    /\ UNCHANGED <<cache, store, configStore, client, config, initDone,
                   nextId, saved, peer, trace, flight>>

LoadData ==
    \E f \in FailAts : Handled("loadData", Void, loadData(World(f)))

GetData ==
    \E f \in FailAts : Handled("getData", Void, getData(World(f)))

ImportFromJson ==
    \E f \in FailAts, p \in Payloads :
        Handled("importFromJson", p, importFromJson(World(f), p))

ClearAll ==
    \E f \in FailAts : Handled("clearAll", Void, clearAll(World(f)))

CreateTask ==
    \E f \in FailAts, d \in TaskDatas :
        Handled("createTask", d, createTask(World(f), d))

UpdateTask ==
    \E f \in FailAts, id \in TaskIds, u \in Updates :
        Handled("updateTask", [id |-> id, updates |-> u],
                updateTask(World(f), id, u.set, u.undef))

DeleteTask ==
    \E f \in FailAts, id \in TaskIds :
        Handled("deleteTask", id, deleteTask(World(f), id))

Next ==
    \/ LoadAndInitialize
    \/ Initialize
    \/ Disconnect
    \/ Sync
    \/ ForcePush
    \/ ForcePull
    \/ RemoteChange
    \/ LoadData
    \/ GetData
    \/ ImportFromJson
    \/ ClearAll
    \/ CreateTask
    \/ UpdateTask
    \/ DeleteTask

Spec == Init /\ [][Next]_vars

(***************************************************************************)
(* The services alone: task, project and tag handlers on one Document      *)
(***************************************************************************)
MaxTaskSteps == 2

TaskHandled(op, arg, r) ==
    /\ steps < MaxTaskSteps
    /\ steps' = steps + 1
    /\ UNCHANGED initDone
    /\ Leaves(op, arg, r)

Project3 ==
    [id |-> 3, name |-> "p", archived |-> FALSE, createdAt |-> 1, updatedAt |-> 1]
Tag4 == [id |-> 4, name |-> "t", createdAt |-> 1]
\* an inbox task, a waiting task, a project and a tag of an earlier run
TaskDoc ==
    [getEmptyData EXCEPT !.tasks = <<Task1, Task9>>,
                         !.projects = <<Project3>>,
                         !.tags = <<Tag4>>]
\* the inbox task, the first task created in this run, the waiting task
ServiceTaskIds == {1, 2, 9}
\* the project and the tag of the earlier run, and an id nothing carries
ServiceItemIds == {3, 4, 5}
\* what a caller hands to updateTask: the properties it sets, and the keys
\* it carries with value undefined
TaskPartials ==
    {[set |-> [dueDate |-> 3], undef |-> {}],
     [set |-> [dueDate |-> 0], undef |-> {}],
     [set |-> [dueDate |-> 3, status |-> "inbox"], undef |-> {}],
     [set |-> [dueDate |-> 3, status |-> "someday"], undef |-> {}],
     [set |-> [status |-> "waiting"], undef |-> {}],
     [set |-> [title |-> "a2"], undef |-> {"status"}],
     [set |-> [completed |-> TRUE], undef |-> {}],
     [set |-> [id |-> 9, title |-> "a4"], undef |-> {}]}

TaskInit ==
    /\ cache = Null
    /\ store \in {NoItem, JSONstringify(TaskDoc)}
    /\ configStore = NoItem
    /\ client = Null
    /\ config = Null
    /\ initDone = TRUE
    /\ remote = NoItem
    /\ remoteOrigin = "none"
    /\ now = 1
    /\ nextId = 2
    /\ saved = IF JSONparses(store) THEN {store} ELSE {}
    /\ last = [op |-> "none", arg |-> Void, pre |-> Pre, err |-> NoErr,
               ret |-> Void, calls |-> <<>>]
    /\ steps = 0
    /\ Alone

TaskCreate ==
    \E f \in FailAts :
        TaskHandled("createTask", [title |-> "b"],
                    createTask(World(f), [title |-> "b"]))

TaskUpdate ==
    \E f \in FailAts, id \in ServiceTaskIds, u \in TaskPartials :
        TaskHandled("updateTask", [id |-> id, updates |-> u],
                    updateTask(World(f), id, u.set, u.undef))

TaskComplete ==
    \E f \in FailAts, id \in ServiceTaskIds :
        TaskHandled("completeTask", id, completeTask(World(f), id))

TaskUncomplete ==
    \E f \in FailAts, id \in ServiceTaskIds :
        TaskHandled("uncompleteTask", id, uncompleteTask(World(f), id))

TaskDelete ==
    \E f \in FailAts, id \in ServiceTaskIds :
        TaskHandled("deleteTask", id, deleteTask(World(f), id))

TaskArchive ==
    \E f \in FailAts, daysOld \in {0, 1} :
        TaskHandled("archiveOldCompletedTasks", daysOld,
                    archiveOldCompletedTasks(World(f), daysOld))

ProjectUpdate ==
    \E f \in FailAts, id \in ServiceItemIds :
        TaskHandled("updateProject", id,
                    updateProject(World(f), id, [name |-> "p2"]))

TagUpdate ==
    \E f \in FailAts, id \in ServiceItemIds :
        TaskHandled("updateTag", id, updateTag(World(f), id, [name |-> "t2"]))

TaskNext ==
    \/ TaskCreate
    \/ TaskUpdate
    \/ TaskComplete
    \/ TaskUncomplete
    \/ TaskDelete
    \/ TaskArchive
    \/ ProjectUpdate
    \/ TagUpdate

TaskSpec == TaskInit /\ [][TaskNext]_vars

(***************************************************************************)
(* The life of a task: createTask, completeTask and uncompleteTask only    *)
(***************************************************************************)
MaxLifeSteps == 3

LifeHandled(op, arg, r) ==
    /\ steps < MaxLifeSteps
    /\ steps' = steps + 1
    /\ UNCHANGED initDone
    /\ Leaves(op, arg, r)

LifeCreate ==
    \E f \in FailAts, d \in TaskDatas :
        LifeHandled("createTask", d, createTask(World(f), d))

LifeComplete ==
    \E f \in FailAts, id \in ServiceTaskIds :
        LifeHandled("completeTask", id, completeTask(World(f), id))

LifeUncomplete ==
    \E f \in FailAts, id \in ServiceTaskIds :
        LifeHandled("uncompleteTask", id, uncompleteTask(World(f), id))

LifeNext ==
    \/ LifeCreate
    \/ LifeComplete
    \/ LifeUncomplete

LifeSpec == TaskInit /\ [][LifeNext]_vars

(***************************************************************************)
(* Archiving: archiveOldCompletedTasks on Documents of completed tasks     *)
(***************************************************************************)
MaxArchiveSteps == 2

\* the time of the start, two days after the epoch, in milliseconds
ArchiveStart == 2 * (24 * 60 * 60 * 1000)
\* a task completed k milliseconds after the instant one day before the
\* first call's Date.now()
CompletedTask(id, k) ==
    Put([NewTask([title |-> "d"], id, 1) EXCEPT !.completed = TRUE],
        "completedAt", (ArchiveStart + 1) - (24 * 60 * 60 * 1000) + k)
\* completed just before, at and just after that instant; completed with no
\* completedAt; not completed
ArchiveTasks ==
    <<CompletedTask(1, 0 - 1), CompletedTask(2, 0), CompletedTask(3, 1),
      [NewTask([title |-> "e"], 4, 1) EXCEPT !.completed = TRUE],
      NewTask([title |-> "f"], 5, 1)>>
ArchiveDocs ==
    {[getEmptyData EXCEPT
        !.tasks = SelectSeq(ArchiveTasks, LAMBDA t : t.id \in S)] :
     S \in SUBSET {1, 2, 3, 4, 5}}

ArchiveInit ==
    /\ cache = Null
    /\ store \in {JSONstringify(d) : d \in ArchiveDocs}
    /\ configStore = NoItem
    /\ client = Null
    /\ config = Null
    /\ initDone = TRUE
    /\ remote = NoItem
    /\ remoteOrigin = "none"
    /\ now = ArchiveStart
    /\ nextId = 6
    /\ saved = {store}
    /\ last = [op |-> "none", arg |-> Void, pre |-> Pre, err |-> NoErr,
               ret |-> Void, calls |-> <<>>]
    /\ steps = 0
    /\ Alone

ArchiveOld ==
    /\ steps < MaxArchiveSteps
    /\ steps' = steps + 1
    /\ UNCHANGED initDone
    /\ \E f \in FailAts, daysOld \in {0, 1, 2} :
          Leaves("archiveOldCompletedTasks", daysOld,
                 archiveOldCompletedTasks(World(f), daysOld))

ArchiveNext == ArchiveOld

ArchiveSpec == ArchiveInit /\ [][ArchiveNext]_vars

(***************************************************************************)
(* Projects and tags: tasks that refer to them, names that may collide     *)
(***************************************************************************)
MaxOrgSteps == 2

OrgHandled(op, arg, r) ==
    /\ steps < MaxOrgSteps
    /\ steps' = steps + 1
    /\ UNCHANGED initDone
    /\ Leaves(op, arg, r)

\* a task of an earlier run in the given project (0: none) with the given tags
OrgTask(id, projectId, tagIds) ==
    LET t == NewTask([title |-> "g", status |-> "waiting", tagIds |-> tagIds], id, 1)
    IN IF projectId = 0 THEN t ELSE Put(t, "projectId", projectId)
Project7 ==
    [id |-> 7, name |-> "r", archived |-> FALSE, createdAt |-> 1, updatedAt |-> 1]
TagWork == [id |-> 4, name |-> "Work", createdAt |-> 1]
TagHome == [id |-> 6, name |-> "home", createdAt |-> 1]
OrgDoc ==
    [getEmptyData EXCEPT
        !.tasks = <<OrgTask(11, 3, <<4, 6>>), OrgTask(12, 3, <<4>>),
                    OrgTask(13, 7, <<6, 4>>), OrgTask(14, 0, <<>>)>>,
        !.projects = <<Project3, Project7>>,
        !.tags = <<TagWork, TagHome>>]
\* the ids of the two projects and of the two tags, and an id nothing carries
OrgProjectIds == {3, 7, 5}
OrgTagIds == {4, 6, 5}
TagNames == {"work", "WORK", "new", ""}

OrgInit ==
    /\ cache = Null
    /\ store \in {NoItem, JSONstringify(OrgDoc)}
    /\ configStore = NoItem
    /\ client = Null
    /\ config = Null
    /\ initDone = TRUE
    /\ remote = NoItem
    /\ remoteOrigin = "none"
    /\ now = 1
    /\ nextId = 20
    /\ saved = IF JSONparses(store) THEN {store} ELSE {}
    /\ last = [op |-> "none", arg |-> Void, pre |-> Pre, err |-> NoErr,
               ret |-> Void, calls |-> <<>>]
    /\ steps = 0
    /\ Alone

OrgCreateTask ==
    \E f \in FailAts,
       d \in {[title |-> "t"], [title |-> ""], [description |-> "x"]} :
        OrgHandled("createTask", d, createTask(World(f), d))

OrgCreateProject ==
    \E f \in FailAts, d \in {[name |-> "q"], [name |-> ""], [goal |-> "x"]} :
        OrgHandled("createProject", d, createProject(World(f), d))

OrgDeleteProject ==
    \E f \in FailAts, id \in OrgProjectIds :
        OrgHandled("deleteProject", id, deleteProject(World(f), id))

OrgCreateTag ==
    \E f \in FailAts, d \in {[name |-> n] : n \in TagNames} \cup {[color |-> "red"]} :
        OrgHandled("createTag", d, createTag(World(f), d))

OrgUpdateTag ==
    \E f \in FailAts, id \in OrgTagIds, u \in {[name |-> "HOME"], [color |-> "blue"]} :
        OrgHandled("updateTag", [id |-> id, updates |-> u],
                   updateTag(World(f), id, u))

OrgDeleteTag ==
    \E f \in FailAts, id \in OrgTagIds :
        OrgHandled("deleteTag", id, deleteTag(World(f), id))

OrgGetOrCreateTag ==
    \E f \in FailAts, n \in TagNames :
        OrgHandled("getOrCreateTag", n, getOrCreateTag(World(f), n))

OrgNext ==
    \/ OrgCreateTask
    \/ OrgCreateProject
    \/ OrgDeleteProject
    \/ OrgCreateTag
    \/ OrgUpdateTag
    \/ OrgDeleteTag
    \/ OrgGetOrCreateTag

OrgSpec == OrgInit /\ [][OrgNext]_vars

(***************************************************************************)
(* The digest: calculateHash on Documents that hold their collections in   *)
(* every order                                                             *)
(***************************************************************************)
MaxHashSteps == 1

\* the sequences that hold the elements of seq in another order, or the same
Reorderings(seq) ==
    {[i \in 1..Len(seq) |-> seq[p[i]]] : p \in Permutations(1..Len(seq))}
\* every sequence of distinct elements of the set
Arrangements(set) ==
    {q \in UNION {[1..n -> set] : n \in 0..Cardinality(set)} :
        \A i, j \in 1..Len(q) : i # j => q[i] # q[j]}
HashDocs ==
    {[getEmptyData EXCEPT !.tasks = ts, !.projects = ps, !.tags = gs] :
        ts \in Arrangements({Task1, Task9, OrgTask(11, 3, <<4>>)}),
        ps \in Arrangements({Project3, Project7}),
        gs \in Arrangements({TagWork, TagHome})}

HashInit ==
    /\ cache = Null
    /\ store \in {JSONstringify(d) : d \in HashDocs}
    /\ configStore = NoItem
    /\ client = Null
    /\ config = Null
    /\ initDone = TRUE
    /\ remote = NoItem
    /\ remoteOrigin = "none"
    /\ now = 1
    /\ nextId = 20
    /\ saved = {store}
    /\ last = [op |-> "none", arg |-> Void, pre |-> Pre, err |-> NoErr,
               ret |-> Void, calls |-> <<>>]
    /\ steps = 0
    /\ Alone

HashHandled(op, arg, r) ==
    /\ steps < MaxHashSteps
    /\ steps' = steps + 1
    /\ UNCHANGED initDone
    /\ Leaves(op, arg, r)

HashGetSyncMetadata ==
    \E f \in FailAts :
        HashHandled("getSyncMetadata", Void, getSyncMetadata(World(f)))

HashUpdateSyncMetadata ==
    \E f \in FailAts :
        HashHandled("updateSyncMetadata", Void, updateSyncMetadata(World(f)))

HashNext ==
    \/ HashGetSyncMetadata
    \/ HashUpdateSyncMetadata

HashSpec == HashInit /\ [][HashNext]_vars

(***************************************************************************)
(* The views by due date, asked for around midnight                        *)
(***************************************************************************)
MaxViewSteps == 2

\* the zones: UTC, and one hour ahead of it
Zones == {0, 60 * 60 * 1000}
\* the start of the third day after the epoch in zone tz
ViewMidnight(tz) == (2 * (24 * 60 * 60 * 1000)) - tz
\* a task due k milliseconds after the instant t, completed or not
DueTask(id, t, k, completed) ==
    [NewTask([title |-> "v", dueDate |-> t + k], id, 1) EXCEPT !.completed = completed]
\* around each of four consecutive local midnights of zone tz, with ids from
\* base on: a task due a millisecond before it and one due at it
AroundMidnights(tz, base) ==
    [i \in 1..8 |->
        DueTask(base + i, ViewMidnight(tz),
                (((i - 1) \div 2) - 1) * (24 * 60 * 60 * 1000) - (i % 2), FALSE)]
ViewDoc ==
    [getEmptyData EXCEPT
        !.tasks = AroundMidnights(0, 10) \o AroundMidnights(60 * 60 * 1000, 20)
                  \o <<NewTask([title |-> "w"], 31, 1),
                       NewTask([title |-> "x", dueDate |-> 0], 32, 1),
                       DueTask(33, ViewMidnight(0), 5, TRUE),
                       DueTask(34, ViewMidnight(0), 0 - 5, TRUE),
                       DueTask(35, ViewMidnight(0), (24 * 60 * 60 * 1000) + 5, TRUE)>>]

\* the first call comes at the UTC midnight, or at the midnight of the other
\* zone, or a little after the UTC midnight
ViewInit ==
    /\ cache = Null
    /\ store \in {NoItem, JSONstringify(ViewDoc)}
    /\ configStore = NoItem
    /\ client = Null
    /\ config = Null
    /\ initDone = TRUE
    /\ remote = NoItem
    /\ remoteOrigin = "none"
    /\ now \in {ViewMidnight(tz) - 1 : tz \in Zones} \cup {ViewMidnight(0) + 7}
    /\ nextId = 40
    /\ saved = IF JSONparses(store) THEN {store} ELSE {}
    /\ last = [op |-> "none", arg |-> Void, pre |-> Pre, err |-> NoErr,
               ret |-> Void, calls |-> <<>>]
    /\ steps = 0
    /\ Alone

ViewHandled(op, arg, r) ==
    /\ steps < MaxViewSteps
    /\ steps' = steps + 1
    /\ UNCHANGED initDone
    /\ Leaves(op, arg, r)

ViewToday ==
    \E f \in FailAts, tz \in Zones :
        ViewHandled("getTodayTasks", tz, getTodayTasks(World(f), tz))

ViewTomorrow ==
    \E f \in FailAts, tz \in Zones :
        ViewHandled("getTomorrowTasks", tz, getTomorrowTasks(World(f), tz))

ViewOverdue ==
    \E f \in FailAts, tz \in Zones :
        ViewHandled("getOverdueTasks", tz, getOverdueTasks(World(f), tz))

ViewNext ==
    \/ ViewToday
    \/ ViewTomorrow
    \/ ViewOverdue

ViewSpec == ViewInit /\ [][ViewNext]_vars

(***************************************************************************)
(* The date parser, asked on each day of a week                            *)
(***************************************************************************)
MaxParseSteps == 1

\* the words with one space between each two
RECURSIVE Spaced(_)
Spaced(words) ==
    IF Len(words) < 2 THEN words
    ELSE <<words[1], " ">> \o Spaced(Tail(words))

\* each of the fourteen weekday names after a word, and titles that are a
\* weekday name alone, name a weekday in capitals, name two weekdays, name
\* a weekday beside a word for today or tomorrow, or have white space at
\* the ends, runs of it between the words, or nothing else
Titles ==
    {Spaced(<<"call", WEEKDAYS_DE[i]>>) : i \in 1..7}
    \cup {Spaced(<<WEEKDAYS_EN[i], "call">>) : i \in 1..7}
    \cup {Spaced(words) : words \in
            {<<>>, <<"call">>, <<"monday">>, <<"MONDAY", "call">>, <<"call", "Sonntag">>,
             <<"monday", "freitag">>, <<"sunday", "tuesday", "call">>,
             <<"call", "samstag", "dienstag">>, <<"today", "monday">>,
             <<"Morgen", "sonntag">>, <<"heute">>, <<"call", "tomorrow">>,
             <<"tomorrow">>, <<"today", "TODAY">>, <<"buy", "milk", "tomorrow">>}}
    \cup {<<" ">>, <<" ", " ">>, <<" ", "tomorrow">>, <<"friday", " ">>,
          <<"today", " ", " ", "heute">>, <<"buy", " ", " ", "milk", " ">>,
          <<" ", "buy", " ", "tomorrow", " ", " ", "milk">>,
          <<"buy", " ", "milk", " ", "tomorrow", " ">>}

\* a millisecond before each UTC midnight of a week, and half an hour before
\* each, when the day of the zone ahead has begun
ParseInit ==
    /\ cache = Null
    /\ store = NoItem
    /\ configStore = NoItem
    /\ client = Null
    /\ config = Null
    /\ initDone = TRUE
    /\ remote = NoItem
    /\ remoteOrigin = "none"
    /\ now \in {(k * (24 * 60 * 60 * 1000)) - 1 : k \in 1..7}
               \cup {(k * (24 * 60 * 60 * 1000)) - (30 * 60 * 1000) : k \in 1..7}
    /\ nextId = 1
    /\ saved = {}
    /\ last = [op |-> "none", arg |-> Void, pre |-> Pre, err |-> NoErr,
               ret |-> Void, calls |-> <<>>]
    /\ steps = 0
    /\ Alone

ParseHandled(op, arg, r) ==
    /\ steps < MaxParseSteps
    /\ steps' = steps + 1
    /\ UNCHANGED initDone
    /\ Leaves(op, arg, r)

ParseTitle ==
    \E title \in Titles, tz \in Zones :
        ParseHandled("parseTaskTitle", [title |-> title, tz |-> tz],
                     parseTaskTitle(World(0), title, tz))

ParseNext == ParseTitle

ParseSpec == ParseInit /\ [][ParseNext]_vars

(***************************************************************************)
(* One device syncing again and again, nobody else writing the remote file *)
(***************************************************************************)
MaxResyncSteps == 3

\* a time the clock of this device does not reach
Ahead == 20

\* the handler returned, and with success if it was sync()
Succeeded(op, r) ==
    r.err = NoErr /\ (op = "sync" => r.ret.success)

\* configured at start-up from the stored configuration; the remote file is
\* missing, or is what another device left with a lastSync of none, of long
\* ago, or of a clock ahead of this one
ResyncInit ==
    /\ cache = Null
    /\ store \in {NoItem, JSONstringify(Doc1Synced)}
    /\ configStore = JSONstringify(StoredConfig)
    /\ client = StoredConfig
    /\ config = StoredConfig
    /\ initDone = TRUE
    /\ remote \in {NoItem} \cup {JSONstringify(OtherDoc(t)) : t \in {0, 1, Ahead}}
    /\ remoteOrigin = IF remote = NoItem THEN "none" ELSE "other"
    /\ now = 1
    /\ nextId = 2
    /\ saved = IF JSONparses(store) THEN {store} ELSE {}
    /\ last = [op |-> "none", arg |-> Void, pre |-> Pre, err |-> NoErr,
               ret |-> Void, calls |-> <<>>]
    /\ steps = 0
    /\ Alone

ResyncHandled(op, arg, r) ==
    /\ steps < MaxResyncSteps
    /\ steps' = steps + 1
    /\ UNCHANGED <<initDone, peer, flight>>
    /\ trace' = Append(trace, [dev |-> "this", op |-> op, ok |-> Succeeded(op, r)])
    /\ cache' = r.cache
    /\ store' = r.store
    /\ configStore' = r.configStore
    /\ client' = r.client
    /\ config' = r.config
    /\ remote' = r.remote
    /\ remoteOrigin' = r.remoteOrigin
    /\ now' = r.now
    /\ nextId' = r.nextId
    /\ saved' = r.saved
    /\ last' = [op |-> op, arg |-> arg, pre |-> Pre, err |-> r.err,
                ret |-> r.ret, calls |-> r.calls]

ResyncSync ==
    \E f \in FailAts : ResyncHandled("sync", Void, sync(World(f)))

ResyncCreateTask ==
    \E f \in FailAts, d \in TaskDatas :
        ResyncHandled("createTask", d, createTask(World(f), d))

ResyncDeleteTask ==
    \E f \in FailAts, id \in {1, 9} :
        ResyncHandled("deleteTask", id, deleteTask(World(f), id))

ResyncNext ==
    \/ ResyncSync
    \/ ResyncCreateTask
    \/ ResyncDeleteTask

ResyncSpec == ResyncInit /\ [][ResyncNext]_vars

(***************************************************************************)
(* Two devices, A and B, on one remote file, running one handler at a time *)
(* on one clock.  The variables of the device are A's; peer is B.          *)
(***************************************************************************)
MaxPairSteps == 4

\* what a handler of B starting now finds
PeerWorld(f) ==
    [cache |-> peer.cache, store |-> peer.store, configStore |-> configStore,
     client |-> client, config |-> config, remote |-> remote,
     remoteOrigin |-> remoteOrigin, now |-> now + 1, nextId |-> peer.nextId,
     saved |-> peer.saved, calls |-> <<>>, failAt |-> f, err |-> NoErr, ret |-> Void]

PeerPre ==
    [cache |-> peer.cache, store |-> peer.store, configStore |-> configStore,
     client |-> client, config |-> config, remote |-> remote, now |-> now]

\* both devices are configured for the same server.  A has a task, and has
\* either never synced or made the initial sync at time 1, which left the
\* remote file; B is new.
PairInit ==
    /\ cache = Null
    /\ \/ store = JSONstringify(Doc1) /\ remote = NoItem /\ remoteOrigin = "none"
       \/ store = JSONstringify(Doc1Synced) /\ remote = JSONstringify(Doc1)
            /\ remoteOrigin = "engine"
    /\ configStore = JSONstringify(StoredConfig)
    /\ client = StoredConfig
    /\ config = StoredConfig
    /\ initDone = TRUE
    /\ now = 1
    /\ nextId = 2
    /\ saved = {store}
    /\ last = [op |-> "none", arg |-> Void, pre |-> Pre, err |-> NoErr,
               ret |-> Void, calls |-> <<>>]
    /\ steps = 0
    /\ peer = [cache |-> Null, store |-> NoItem, nextId |-> 50, saved |-> {}]
    /\ trace = <<>>
    /\ flight = Null

\* a handler of A has run
PairHandledA(op, arg, r) ==
    /\ steps < MaxPairSteps
    /\ steps' = steps + 1
    /\ UNCHANGED <<initDone, peer, flight>>
    /\ trace' = Append(trace, [dev |-> "A", op |-> op, ok |-> Succeeded(op, r)])
    /\ cache' = r.cache
    /\ store' = r.store
    /\ configStore' = r.configStore
    /\ client' = r.client
    /\ config' = r.config
    /\ remote' = r.remote
    /\ remoteOrigin' = r.remoteOrigin
    /\ now' = r.now
    /\ nextId' = r.nextId
    /\ saved' = r.saved
    /\ last' = [op |-> op, arg |-> arg, pre |-> Pre, err |-> r.err,
                ret |-> r.ret, calls |-> r.calls]

\* a handler of B has run
PairHandledB(op, arg, r) ==
    /\ steps < MaxPairSteps
    /\ steps' = steps + 1
    /\ UNCHANGED <<initDone, flight, cache, store, configStore, client, config,
                   nextId, saved>>
    /\ trace' = Append(trace, [dev |-> "B", op |-> op, ok |-> Succeeded(op, r)])
    /\ peer' = [cache |-> r.cache, store |-> r.store, nextId |-> r.nextId,
                saved |-> r.saved]
    /\ remote' = r.remote
    /\ remoteOrigin' = r.remoteOrigin
    /\ now' = r.now
    /\ last' = [op |-> op, arg |-> arg, pre |-> PeerPre, err |-> r.err,
                ret |-> r.ret, calls |-> r.calls]

PairSyncA ==
    \E f \in FailAts : PairHandledA("sync", Void, sync(World(f)))

PairSyncB ==
    \E f \in FailAts : PairHandledB("sync", Void, sync(PeerWorld(f)))

PairCreateTaskA ==
    \E f \in FailAts :
        PairHandledA("createTask", [title |-> "b"],
                     createTask(World(f), [title |-> "b"]))

PairCreateTaskB ==
    \E f \in FailAts :
        PairHandledB("createTask", [title |-> "c"],
                     createTask(PeerWorld(f), [title |-> "c"]))

PairNext ==
    \/ PairSyncA
    \/ PairSyncB
    \/ PairCreateTaskA
    \/ PairCreateTaskB

PairSpec == PairInit /\ [][PairNext]_vars

(***************************************************************************)
(* Start-up and disconnect(), interleaved at their awaits.  An awaited I/O *)
(* call takes effect when it settles; calls pending together settle in any *)
(* order.  flight holds what each of the two is waiting for.               *)
(***************************************************************************)
MaxBootSteps == 4

\* no entry, an entry that does not parse, or the configuration accepted in
\* an earlier run, for a URL given in either form and either password
BootConfigStores ==
    {NoItem, Garbage}
    \cup {JSONstringify([url |-> WebdavUrl(u, "user"), username |-> "user",
                         password |-> pw]) : u \in Urls, pw \in {"pw0", "pw1"}}

\* the constructor has called loadAndInitialize(), which awaits getItem
BootInit ==
    /\ cache = Null
    /\ store = NoItem
    /\ configStore \in BootConfigStores
    /\ client = Null
    /\ config = Null
    /\ initDone = FALSE
    /\ remote = NoItem
    /\ remoteOrigin = "none"
    /\ now = 1
    /\ nextId = 2
    /\ saved = {}
    /\ last = [op |-> "none", arg |-> Void, pre |-> Pre, err |-> NoErr,
               ret |-> Void, calls |-> <<>>]
    /\ steps = 0
    /\ peer = Null
    /\ trace = <<>>
    /\ flight = [boot |-> "getItem", disconnect |-> "idle"]

\* a call ran from one await to the next and left the world r
BootStep(op, r, waits) ==
    /\ steps < MaxBootSteps
    /\ steps' = steps + 1
    /\ flight' = waits
    /\ initDone' = (waits.boot = "done")
    /\ trace' = Append(trace, [dev |-> "this", op |-> op, ok |-> r.err = NoErr])
    /\ UNCHANGED peer
    /\ cache' = r.cache
    /\ store' = r.store
    /\ configStore' = r.configStore
    /\ client' = r.client
    /\ config' = r.config
    /\ remote' = r.remote
    /\ remoteOrigin' = r.remoteOrigin
    /\ now' = r.now
    /\ nextId' = r.nextId
    /\ saved' = r.saved
    /\ last' = [op |-> op, arg |-> Void, pre |-> Pre, err |-> r.err,
                ret |-> r.ret, calls |-> r.calls]

\* initializeClient up to its await: the URL is normalised, client and config
\* are assigned, and the probe is started
initializeClientAssigns(w, url, username, password) ==
    LET cfg == [url |-> WebdavUrl(url, username), username |-> username,
                password |-> password]
    IN [w EXCEPT !.client = cfg, !.config = cfg]

\* loadAndInitialize(): getItem settles.  With an entry that parses,
\* initializeClient runs up to the probe; everything else ends the start-up.
BootGetItemSettles ==
    /\ flight.boot = "getItem"
    /\ \E f \in {0, 1} :
          LET w1 == getItem(World(f), WEBDAV_CONFIG_KEY)
          IN IF Ok(w1) /\ w1.ret # NoItem /\ JSONparses(w1.ret)
             THEN BootStep("loadAndInitialize.getItem",
                           initializeClientAssigns(w1, JSONparse(w1.ret).url,
                                                   JSONparse(w1.ret).username,
                                                   JSONparse(w1.ret).password),
                           [flight EXCEPT !.boot = "exists"])
             ELSE BootStep("loadAndInitialize.getItem", w1,
                           [flight EXCEPT !.boot = "done"])

\* loadAndInitialize(): the probe settles; saveConfig is false, and a
\* rejection is caught and logged
BootExistsSettles ==
    /\ flight.boot = "exists"
    /\ \E f \in {0, 1} :
          BootStep("loadAndInitialize.exists", exists(World(f), "/"),
                   [flight EXCEPT !.boot = "done"])

\* disconnect() is called: client and config are cleared and removeItem is
\* started
BootDisconnectCalled ==
    /\ flight.disconnect = "idle"
    /\ BootStep("disconnect", [World(0) EXCEPT !.client = Null, !.config = Null],
                [flight EXCEPT !.disconnect = "removeItem"])

\* disconnect(): removeItem settles
BootRemoveItemSettles ==
    /\ flight.disconnect = "removeItem"
    /\ \E f \in {0, 1} :
          BootStep("disconnect.removeItem", removeItem(World(f), WEBDAV_CONFIG_KEY),
                   [flight EXCEPT !.disconnect = "done"])

BootNext ==
    \/ BootGetItemSettles
    \/ BootExistsSettles
    \/ BootDisconnectCalled
    \/ BootRemoveItemSettles

BootSpec == BootInit /\ [][BootNext]_vars

(***************************************************************************)
(* Two createTask calls, p and q, interleaved at their awaits.  Objects    *)
(* have identity: flight.heap holds them, flight.cacheRef is the one that  *)
(* is StorageService.cache (0: null), and each call holds the one its      *)
(* getData() returned.  The storage calls settle in the order they were    *)
(* issued (flight.pending).                                                *)
(***************************************************************************)
MaxRaceSteps == 8

RaceCalls == {"p", "q"}
TaskDataOf(c) == IF c = "p" THEN [title |-> "b"] ELSE [title |-> "c"]
Idle == [pc |-> "idle", data |-> 0, text |-> NoItem]

\* the cache is cold, with no entry or with the Document of an earlier run,
\* or warm with that Document
RaceInit ==
    /\ store \in {NoItem, JSONstringify(Doc1)}
    /\ flight \in {[heap |-> <<>>, cacheRef |-> 0, pending |-> <<>>,
                    calls |-> [c \in RaceCalls |-> Idle]]}
                  \cup (IF store = NoItem THEN {}
                        ELSE {[heap |-> <<Doc1>>, cacheRef |-> 1, pending |-> <<>>,
                               calls |-> [c \in RaceCalls |-> Idle]]})
    /\ cache = IF flight.cacheRef = 0 THEN Null ELSE flight.heap[flight.cacheRef]
    /\ configStore = NoItem
    /\ client = Null
    /\ config = Null
    /\ initDone = TRUE
    /\ remote = NoItem
    /\ remoteOrigin = "none"
    /\ now = 1
    /\ nextId = 2
    /\ saved = IF JSONparses(store) THEN {store} ELSE {}
    /\ last = [op |-> "none", arg |-> Void, pre |-> Pre, err |-> NoErr,
               ret |-> Void, calls |-> <<>>]
    /\ steps = 0
    /\ peer = Null
    /\ trace = <<>>

\* the call c ran from one await to the next, leaving the world r and the
\* objects and positions fl
RaceStep(op, c, r, fl) ==
    /\ steps < MaxRaceSteps
    /\ steps' = steps + 1
    /\ flight' = fl
    /\ cache' = IF fl.cacheRef = 0 THEN Null ELSE fl.heap[fl.cacheRef]
    /\ trace' = Append(trace, [dev |-> c, op |-> op, ok |-> r.err = NoErr])
    /\ UNCHANGED <<peer, initDone, configStore, client, config>>
    /\ store' = r.store
    /\ remote' = r.remote
    /\ remoteOrigin' = r.remoteOrigin
    /\ now' = r.now
    /\ nextId' = r.nextId
    /\ saved' = r.saved
    /\ last' = [op |-> op, arg |-> c, pre |-> Pre, err |-> r.err,
                ret |-> r.ret, calls |-> r.calls]

\* the storage call of c has settled; c now waits for nothing
Settled(fl, c, pc) ==
    [fl EXCEPT !.pending = Tail(@), !.calls[c].pc = pc]

\* createTask from the return of getData() with the object ref to the await
\* in saveData: the new task is pushed onto the object, version is assigned
\* on it, the object is serialized and setItem is started with that text
createTaskPushes(fl, c, ref, w) ==
    LET newTask == NewTask(TaskDataOf(c), w.nextId, w.now)
        pushed == Put(fl.heap[ref], "tasks", Append(fl.heap[ref].tasks, newTask))
        stamped == Put(pushed, "version", STORAGE_VERSION)
    IN [fl EXCEPT !.heap[ref] = stamped,
                  !.pending = Append(@, c),
                  !.calls[c] = [pc |-> "setItem", data |-> ref,
                                text |-> JSONstringify(stamped)]]

\* createTask(taskData) is called.  getData() returns the cached object when
\* there is one, and createTask goes on to its save; otherwise loadData()
\* starts getItem.
RaceCalled(c) ==
    /\ flight.calls[c].pc = "idle"
    /\ IF flight.cacheRef # 0
       THEN RaceStep("createTask", c, [World(0) EXCEPT !.nextId = @ + 1],
                     createTaskPushes(flight, c, flight.cacheRef, World(0)))
       ELSE RaceStep("createTask", c, World(0),
                     [flight EXCEPT !.pending = Append(@, c),
                                    !.calls[c].pc = "getItem"])

\* loadData(): getItem settles.  No entry: a new empty Document is made and
\* its save started.  An entry: it is parsed into a new object, which
\* becomes the cache and is returned to createTask.
RaceGetItemSettles(c) ==
    /\ flight.calls[c].pc = "getItem"
    /\ Head(flight.pending) = c
    /\ \E f \in {0, 1} :
          LET w1 == getItem(World(f), STORAGE_KEY)
              ref == Len(flight.heap) + 1
              made(doc) == [Settled(flight, c, "made") EXCEPT !.heap = Append(@, doc)]
          IN IF ~Ok(w1) \/ (w1.ret # NoItem /\ ~JSONparses(w1.ret))
             THEN RaceStep("loadData.getItem", c,
                           Throw(w1, "Failed to load data from storage"),
                           Settled(flight, c, "failed"))
             ELSE IF w1.ret = NoItem
             THEN RaceStep("loadData.getItem", c, w1,
                           [made(getEmptyData) EXCEPT
                               !.pending = Append(@, c),
                               !.calls[c] = [pc |-> "setItemEmpty", data |-> ref,
                                             text |-> JSONstringify(getEmptyData)]])
             ELSE RaceStep("loadData.getItem", c, [w1 EXCEPT !.nextId = @ + 1],
                           createTaskPushes([made(JSONparse(w1.ret)) EXCEPT
                                                !.cacheRef = ref], c, ref, w1))

\* loadData(): the save of the empty Document settles; the Document becomes
\* the cache and is returned to createTask
RaceSetItemEmptySettles(c) ==
    /\ flight.calls[c].pc = "setItemEmpty"
    /\ Head(flight.pending) = c
    /\ \E f \in {0, 1} :
          LET w1 == setItem(World(f), STORAGE_KEY, flight.calls[c].text)
              ref == flight.calls[c].data
          IN IF ~Ok(w1)
             THEN RaceStep("loadData.setItem", c,
                           Throw(w1, "Failed to load data from storage"),
                           Settled(flight, c, "failed"))
             ELSE RaceStep("loadData.setItem", c, [w1 EXCEPT !.nextId = @ + 1],
                           createTaskPushes([Settled(flight, c, "saved") EXCEPT
                                                !.cacheRef = ref], c, ref, w1))

\* saveData(data) of createTask: setItem settles; this.cache = data
RaceSetItemSettles(c) ==
    /\ flight.calls[c].pc = "setItem"
    /\ Head(flight.pending) = c
    /\ \E f \in {0, 1} :
          LET w1 == setItem(World(f), STORAGE_KEY, flight.calls[c].text)
          IN IF ~Ok(w1)
             THEN RaceStep("saveData.setItem", c,
                           Throw(w1, "Failed to save data to storage"),
                           Settled(flight, c, "failed"))
             ELSE RaceStep("saveData.setItem", c, w1,
                           [Settled(flight, c, "done") EXCEPT
                               !.cacheRef = flight.calls[c].data])

RaceNext ==
    \E c \in RaceCalls :
        \/ RaceCalled(c)
        \/ RaceGetItemSettles(c)
        \/ RaceSetItemEmptySettles(c)
        \/ RaceSetItemSettles(c)

RaceSpec == RaceInit /\ [][RaceNext]_vars

(***************************************************************************)
(* A sync(), s, and a createTask, p, interleaved at their awaits, on a     *)
(* warm cache.  flight is as for the two createTask calls, with the result *)
(* sync() is going to return; the calls to the server settle whenever.     *)
(***************************************************************************)
\* the remote file is missing, unparseable, or the Document of another
\* device synced never, at the time this device last synced, or later
MidSyncInit ==
    /\ cache = Doc1Synced
    /\ store = JSONstringify(Doc1Synced)
    /\ flight = [heap |-> <<Doc1Synced>>, cacheRef |-> 1, pending |-> <<>>,
                 calls |-> [c \in {"p", "s"} |-> Idle], result |-> SyncFailed]
    /\ configStore = JSONstringify(StoredConfig)
    /\ client = StoredConfig
    /\ config = StoredConfig
    /\ initDone = TRUE
    /\ remote \in {NoItem, Garbage} \cup {JSONstringify(OtherDoc(t)) : t \in {0, 1, 2}}
    /\ remoteOrigin = IF remote = NoItem THEN "none" ELSE "other"
    /\ now = 1
    /\ nextId = 2
    /\ saved = {store}
    /\ last = [op |-> "none", arg |-> Void, pre |-> Pre, err |-> NoErr,
               ret |-> Void, calls |-> <<>>]
    /\ steps = 0
    /\ peer = Null
    /\ trace = <<>>

\* the catch block of sync(): sync returns {success: false}
MidSyncFails(op, w, fl) ==
    RaceStep(op, "s", Return([w EXCEPT !.err = NoErr], SyncFailed),
             [fl EXCEPT !.calls["s"].pc = "failed"])

\* uploadData() to its await: the cached object of this moment is
\* serialized and putFileContents is started
uploadDataStarts(fl, result) ==
    [fl EXCEPT !.calls["s"].pc = "putFileContents",
               !.calls["s"].text = JSONstringify(fl.heap[fl.cacheRef]),
               !.result = result]

\* updateSyncMetadata() to the await in saveData: lastSync and syncHash are
\* assigned on the cached object, which is serialized, and setItem is started
updateSyncMetadataStarts(fl, w) ==
    LET ref == fl.cacheRef
        data == fl.heap[ref]
        stamped == Put(Put(Put(data, "lastSync", w.now),
                           "syncHash", calculateHash(data)),
                       "version", STORAGE_VERSION)
    IN [fl EXCEPT !.heap[ref] = stamped,
                  !.pending = Append(@, "s"),
                  !.calls["s"] = [pc |-> "updateSyncMetadata", data |-> ref,
                                  text |-> JSONstringify(stamped)]]

\* sync() is called: getData() returns the cached object and downloadData()
\* starts exists
MidSyncCalled ==
    /\ flight.calls["s"].pc = "idle"
    /\ RaceStep("sync", "s", World(0),
                [flight EXCEPT !.calls["s"].pc = "exists",
                               !.calls["s"].data = flight.cacheRef])

\* downloadData(): exists settles.  No remote file: sync() uploads.
MidExistsSettles ==
    /\ flight.calls["s"].pc = "exists"
    /\ \E f \in {0, 1} :
          LET w1 == exists(World(f), WEBDAV_FILE_PATH)
          IN IF ~Ok(w1) THEN MidSyncFails("sync.exists", w1, flight)
             ELSE IF ~w1.ret
             THEN RaceStep("sync.exists", "s", w1, uploadDataStarts(flight, SyncInitial))
             ELSE RaceStep("sync.exists", "s", w1,
                           [flight EXCEPT !.calls["s"].pc = "getFileContents"])

\* downloadData(): getFileContents settles and sync() compares the lastSync
\* of the remote Document with that of the object getData() returned: it
\* starts saveData(remoteData) or uploadData()
MidGetFileContentsSettles ==
    /\ flight.calls["s"].pc = "getFileContents"
    /\ \E f \in {0, 1} :
          LET w1 == getFileContents(World(f))
              ref == Len(flight.heap) + 1
              remoteData == Put(JSONparse(w1.ret), "version", STORAGE_VERSION)
          IN IF ~Ok(w1) \/ ~JSONparses(w1.ret)
             THEN MidSyncFails("sync.getFileContents", w1, flight)
             ELSE IF RemoteIsNewer(flight.heap[flight.calls["s"].data], JSONparse(w1.ret))
             THEN RaceStep("sync.getFileContents", "s", w1,
                           [flight EXCEPT
                               !.heap = Append(@, remoteData),
                               !.pending = Append(@, "s"),
                               !.result = SyncDownloaded,
                               !.calls["s"] = [pc |-> "saveData", data |-> ref,
                                               text |-> JSONstringify(remoteData)]])
             ELSE RaceStep("sync.getFileContents", "s", w1,
                           uploadDataStarts(flight, SyncUploaded))

\* uploadData(): putFileContents settles; updateSyncMetadata() starts
MidPutFileContentsSettles ==
    /\ flight.calls["s"].pc = "putFileContents"
    /\ \E f \in {0, 1} :
          LET w1 == putFileContents(World(f), flight.calls["s"].text)
          IN IF ~Ok(w1) THEN MidSyncFails("sync.putFileContents", w1, flight)
             ELSE RaceStep("sync.putFileContents", "s", w1,
                           updateSyncMetadataStarts(flight, w1))

\* saveData(remoteData): setItem settles, this.cache = remoteData;
\* updateSyncMetadata() starts
MidSaveDataSettles ==
    /\ flight.calls["s"].pc = "saveData"
    /\ Head(flight.pending) = "s"
    /\ \E f \in {0, 1} :
          LET w1 == setItem(World(f), STORAGE_KEY, flight.calls["s"].text)
          IN IF ~Ok(w1)
             THEN MidSyncFails("sync.saveData", w1, Settled(flight, "s", "failed"))
             ELSE RaceStep("sync.saveData", "s", w1,
                           updateSyncMetadataStarts(
                               [Settled(flight, "s", "saved") EXCEPT
                                   !.cacheRef = flight.calls["s"].data], w1))

\* updateSyncMetadata(): setItem settles, and sync() returns its result
MidUpdateSyncMetadataSettles ==
    /\ flight.calls["s"].pc = "updateSyncMetadata"
    /\ Head(flight.pending) = "s"
    /\ \E f \in {0, 1} :
          LET w1 == setItem(World(f), STORAGE_KEY, flight.calls["s"].text)
          IN IF ~Ok(w1)
             THEN MidSyncFails("sync.updateSyncMetadata", w1,
                               Settled(flight, "s", "failed"))
             ELSE RaceStep("sync.updateSyncMetadata", "s", Return(w1, flight.result),
                           [Settled(flight, "s", "done") EXCEPT
                               !.cacheRef = flight.calls["s"].data])

MidSyncNext ==
    \/ RaceCalled("p")
    \/ RaceSetItemSettles("p")
    \/ MidSyncCalled
    \/ MidExistsSettles
    \/ MidGetFileContentsSettles
    \/ MidPutFileContentsSettles
    \/ MidSaveDataSettles
    \/ MidUpdateSyncMetadataSettles

MidSyncSpec == MidSyncInit /\ [][MidSyncNext]_vars

(***************************************************************************)
(* The local Document and the vocabulary of the properties                 *)
(***************************************************************************)
\* the Document the backing entry holds: a fresh one when there is no entry,
\* Null when the entry cannot be parsed
StoredDoc(s) ==
    IF s = NoItem THEN getEmptyData
    ELSE IF JSONparses(s) THEN JSONparse(s) ELSE Null

\* the Document getData() serves when the cache is c and the entry is s
DocOf(c, s) == IF c # Null THEN c ELSE StoredDoc(s)

Collections(d) == Pick(d, {"tasks", "projects", "tags"})
DocFields(d) == Pick(d, {"tasks", "projects", "tags", "lastSync", "syncHash"})

LocalNow == DocOf(cache, store)
LocalBefore == DocOf(last.pre.cache, last.pre.store)

\* cache and backing entry hold the Document they held when the handler began
LocalUntouched ==
    /\ DocFields(LocalNow) = DocFields(LocalBefore)
    /\ DocFields(StoredDoc(store)) = DocFields(StoredDoc(last.pre.store))

SyncReturned(result) ==
    last.op = "sync" /\ last.err = NoErr /\ last.ret = result

RemoteBefore == JSONparse(last.pre.remote)
RemoteNewer ==
    /\ JSONparses(last.pre.remote)
    /\ NumOr(RemoteBefore, "lastSync", 0) > NumOr(LocalBefore, "lastSync", 0)
RemoteNotNewer ==
    /\ JSONparses(last.pre.remote)
    /\ NumOr(RemoteBefore, "lastSync", 0) <= NumOr(LocalBefore, "lastSync", 0)

InCalls(name) == \E i \in 1..Len(last.calls) : last.calls[i] = name
LastCall == IF last.calls = <<>> THEN "none" ELSE last.calls[Len(last.calls)]

\* lastSync is t in the cache and in the backing entry
StampedAt(t) ==
    /\ cache # Null /\ Has(cache, "lastSync") /\ cache.lastSync = t
    /\ JSONparses(store) /\ Has(JSONparse(store), "lastSync")
    /\ JSONparse(store).lastSync = t

(***************************************************************************)
(* Properties                                                              *)
(***************************************************************************)
\* C1: whenever sync() returns {success: false}, the local Document (cache
\* and backing entry: tasks, projects, tags, lastSync, syncHash) is what it
\* was when sync() was called.
C1_FailedSyncLeavesLocalUntouched ==
    (last.op = "sync" /\ last.err = NoErr /\ ~last.ret.success) => LocalUntouched

C3_OlderRemoteIsOverwritten ==
    (last.op = "sync" /\ last.err = NoErr /\ last.ret.success /\ RemoteNotNewer) =>
        /\ last.ret = SyncUploaded
        /\ remote = JSONstringify(LocalBefore)
        /\ Collections(LocalNow) = Collections(LocalBefore)
        /\ Collections(StoredDoc(store)) = Collections(LocalBefore)
        /\ StampedAt(now)

\* equal lastSync on both sides, and a remote Document that differs
C3_Witness ==
    /\ SyncReturned(SyncUploaded) /\ RemoteNotNewer
    /\ NumOr(LocalBefore, "lastSync", 0) = 1
    /\ NumOr(RemoteBefore, "lastSync", 0) = 1
    /\ RemoteBefore.tasks # LocalBefore.tasks

\* C4: no remote file: a successful sync() creates it holding the local
\* Document as it was before the call, leaves the local tasks, projects and
\* tags unchanged, and sets lastSync to a value >= the time the call started.
C4_InitialSyncUploadsVerbatim ==
    (last.op = "sync" /\ last.err = NoErr /\ last.ret.success
     /\ last.pre.remote = NoItem) =>
        /\ remote = JSONstringify(LocalBefore)
        /\ Collections(LocalNow) = Collections(LocalBefore)
        /\ Collections(StoredDoc(store)) = Collections(LocalBefore)
        /\ \E t \in last.pre.now..now : StampedAt(t)

C4_Witness ==
    /\ SyncReturned(SyncInitial) /\ last.pre.remote = NoItem
    /\ LocalBefore.tasks # <<>>

\* C5: sync() never throws: in every engine state it completes by returning
\* a result.
C5_SyncNeverThrows ==
    last.op = "sync" => last.err = NoErr

\* C6: a remote file written by this engine holds a Document that was
\* successfully written to the local backing store before.
C6_RemoteWasSavedLocally ==
    remoteOrigin = "engine" => remote \in saved

\* C7: when the write to the backing medium fails during a save, the handler
\* fails and the Document the cache serves to the next getData() is the one
\* it served before the call.
C7_FailedSaveLeavesCache ==
    (last.op \in {"loadData", "importFromJson", "createTask", "updateTask",
                  "deleteTask"}
     /\ LastCall = "setItem!") =>
        /\ last.err # NoErr
        /\ LocalNow = LocalBefore

C9_IncompleteImportRejected ==
    (last.op = "importFromJson" /\ JSONparses(last.arg)
     /\ ~HasCollections(JSONparse(last.arg))) =>
        /\ last.err = "Failed to import data"
        /\ cache = last.pre.cache
        /\ store = last.pre.store

\* the payload lacks tags only, and there was a Document to lose
C9_Witness ==
    /\ last.op = "importFromJson" /\ JSONparses(last.arg)
    /\ DOMAIN Collections(JSONparse(last.arg)) = {"tasks", "projects"}
    /\ last.pre.cache # Null /\ last.pre.cache.tasks # <<>>

\* C10: importFromJson of a payload holding the three collections succeeds
\* unless the write fails, and then tasks, projects and tags are exactly the
\* payload's, in the cache and in the backing entry.
C10_ImportReplaces ==
    (last.op = "importFromJson" /\ JSONparses(last.arg)
     /\ HasCollections(JSONparse(last.arg)) /\ LastCall # "setItem!") =>
        /\ last.err = NoErr
        /\ Collections(cache) = Collections(JSONparse(last.arg))
        /\ Collections(StoredDoc(store)) = Collections(JSONparse(last.arg))

\* the previous Document held a task the payload does not hold
C10_Witness ==
    /\ last.op = "importFromJson" /\ last.err = NoErr
    /\ LocalBefore # Null
    /\ \E i \in 1..Len(LocalBefore.tasks) :
          \A j \in 1..Len(JSONparse(last.arg).tasks) :
              JSONparse(last.arg).tasks[j].id # LocalBefore.tasks[i].id

\* C11: when the existence probe of initialize(url, username, password)
\* fails, initialize fails with an error and the persisted configuration
\* entry is what it was before the call.
C11_FailedProbeKeepsStoredConfig ==
    (last.op = "initialize" /\ InCalls("exists!")) =>
        /\ last.err = "Failed to connect to WebDAV server. Please check your credentials."
        /\ configStore = last.pre.configStore

\* the probe fails while another configuration is stored
C11_Witness ==
    /\ last.op = "initialize" /\ LastCall = "exists!"
    /\ last.pre.configStore = JSONstringify(StoredConfig)
    /\ config # Null /\ config.password # StoredConfig.password

\* C12: disconnect() leaves isConfigured() false and getConfig() null, and
\* leaves cache, backing entry and remote file as they were; when it returns,
\* the configuration entry is gone, and a start-up loadAndInitialize() that
\* settles afterwards configures nothing.
C12_DisconnectForgetsConfig ==
    last.op = "disconnect" =>
        /\ ~isConfigured(World(0))
        /\ getConfig(World(0)) = Null
        /\ cache = last.pre.cache
        /\ store = last.pre.store
        /\ remote = last.pre.remote
        /\ last.err = NoErr =>
              /\ configStore = NoItem
              /\ \A f \in FailAts :
                    LET r == loadAndInitialize(World(f))
                    IN ~isConfigured(r) /\ getConfig(r) = Null

\* a configured service with a Document and a remote file
C12_Witness ==
    /\ last.op = "disconnect" /\ last.err = NoErr
    /\ last.pre.client # Null /\ last.pre.config # Null
    /\ last.pre.configStore # NoItem
    /\ last.pre.remote # NoItem
    /\ StoredDoc(store) # Null /\ StoredDoc(store).tasks # <<>>

\* C13: whatever the two lastSync values are, a forcePush() that returns
\* leaves in the remote file the local Document as it was at the call and the
\* local tasks, projects and tags unchanged; a forcePull() that returns
\* leaves the local tasks, projects and tags equal to those of the remote
\* file, which it does not write; without a remote file forcePull() fails
\* and leaves cache and backing entry as they were.
C13_ForceIgnoresComparison ==
    /\ (last.op = "forcePush" /\ last.err = NoErr) =>
          /\ remote = JSONstringify(LocalBefore)
          /\ Collections(cache) = Collections(LocalBefore)
          /\ Collections(StoredDoc(store)) = Collections(LocalBefore)
    /\ (last.op = "forcePull" /\ last.err = NoErr) =>
          /\ Collections(cache) = Collections(RemoteBefore)
          /\ Collections(StoredDoc(store)) = Collections(RemoteBefore)
          /\ remote = last.pre.remote
    /\ (last.op = "forcePull" /\ last.pre.remote = NoItem) =>
          /\ last.err # NoErr
          /\ cache = last.pre.cache
          /\ store = last.pre.store

\* forcePull() of a remote file that sync() would have overwritten
C13_Witness ==
    /\ last.op = "forcePull" /\ last.err = NoErr
    /\ RemoteNotNewer
    /\ NumOr(LocalBefore, "lastSync", 0) = 1
    /\ LocalBefore.tasks # RemoteBefore.tasks


(***************************************************************************)
(* Properties of the services                                              *)
(***************************************************************************)
\* the task with this id in Document d
HasTask(d, id) == d # Null /\ FindIndex(d.tasks, id) # 0
TaskOf(d, id) == d.tasks[FindIndex(d.tasks, id)]
StatusOf(t) == IF Has(t, "status") THEN t.status ELSE "undefined"
\* the application's test for a task that has a due date: task.dueDate
HasDueDate(t) == NumOr(t, "dueDate", 0) # 0

\* an updateTask that returned, of a task the Document held
Updated ==
    /\ last.op = "updateTask" /\ last.err = NoErr
    /\ HasTask(LocalBefore, last.arg.id)
TaskBefore == TaskOf(LocalBefore, last.arg.id)
\* the task as the cache and the backing entry hold it after the call
TaskCached == TaskOf(cache, last.arg.id)
TaskStored == TaskOf(StoredDoc(store), last.arg.id)
\* the partial names status, with a value or as undefined
GivesStatus ==
    "status" \in (DOMAIN last.arg.updates.set) \cup last.arg.updates.undef

\* C14: an updateTask(id, {dueDate: X}) with a due date X and no status, of
\* a task whose status is inbox, yields a task whose status is not inbox.
C14_DueDatePromotesInbox ==
    (Updated /\ StatusOf(TaskBefore) = "inbox"
     /\ HasDueDate(last.arg.updates.set) /\ ~GivesStatus) =>
        /\ StatusOf(last.ret) # "inbox"
        /\ StatusOf(TaskCached) # "inbox"
        /\ StatusOf(TaskStored) # "inbox"

C14_Witness ==
    /\ Updated /\ StatusOf(TaskBefore) = "inbox"
    /\ last.arg.updates.set = [dueDate |-> 3]
    /\ last.ret.dueDate = 3 /\ StatusOf(last.ret) = "next"

\* C15: after an updateTask whose partial carries a due date, whatever status
\* accompanies it, the task does not have status inbox with that due date.
C15_NoInboxWithNewDueDate ==
    (Updated /\ HasDueDate(last.arg.updates.set)) =>
        ~(StatusOf(TaskCached) = "inbox" /\ HasDueDate(TaskCached))

\* C16: an updateTask of a task whose status is not inbox leaves as status
\* the one the partial gives when it gives one, and the status the task had
\* otherwise, whatever else the partial holds.
C16_PromotedStatusIsKept ==
    (Updated /\ StatusOf(TaskBefore) # "inbox") =>
        LET expected == IF GivesStatus
                        THEN StatusOf(last.arg.updates.set)
                        ELSE StatusOf(TaskBefore)
        IN /\ StatusOf(last.ret) = expected
           /\ StatusOf(TaskCached) = expected
           /\ StatusOf(TaskStored) = expected

\* a due date given to a waiting task, no status given
C16_Witness ==
    /\ Updated /\ StatusOf(TaskBefore) = "waiting"
    /\ HasDueDate(last.arg.updates.set) /\ ~GivesStatus
    /\ HasDueDate(last.ret) /\ StatusOf(last.ret) = "waiting"


\* completed is true exactly when completedAt is set
Consistent(t) == t.completed <=> Has(t, "completedAt")
AllConsistent(d) ==
    d # Null => \A i \in 1..Len(d.tasks) : Consistent(d.tasks[i])

\* C17: every task of the Document, in the cache and in the backing entry,
\* has completed true exactly when its completedAt is set, after any run of
\* createTask, updateTask with any partial, completeTask, uncompleteTask,
\* deleteTask and archiveOldCompletedTasks.
C17_CompletedIffCompletedAt ==
    AllConsistent(LocalNow) /\ AllConsistent(StoredDoc(store))

\* a completeTask or uncompleteTask that returned
Done(op) == last.op = op /\ last.err = NoErr
\* the task it was called on: before, and after in cache and backing entry
LifeBefore == TaskOf(LocalBefore, last.arg)
LifeCached == TaskOf(cache, last.arg)
LifeStored == TaskOf(StoredDoc(store), last.arg)
Without(t, keys) == [k \in (DOMAIN t) \ keys |-> t[k]]

\* C18: completeTask leaves the task with completed true and completedAt the
\* time of the call, uncompleteTask leaves it with completed false and no
\* completedAt, each by one save that changes nothing else but updatedAt;
\* after any run of createTask, completeTask and uncompleteTask every task
\* has completed true exactly when completedAt is set.
C18_CompleteAndUncomplete ==
    /\ Done("completeTask") =>
          /\ last.ret = [Put(Put(LifeBefore, "completed", TRUE), "completedAt", now)
                            EXCEPT !.updatedAt = now]
          /\ LifeCached = last.ret /\ LifeStored = last.ret
    /\ Done("uncompleteTask") =>
          /\ last.ret = [Put(Without(LifeBefore, {"completedAt"}), "completed", FALSE)
                            EXCEPT !.updatedAt = now]
          /\ LifeCached = last.ret /\ LifeStored = last.ret
    /\ (Done("completeTask") \/ Done("uncompleteTask")) =>
          Len(SelectSeq(last.calls, LAMBDA c : c = "setItem")) =
             IF last.pre.cache = Null /\ last.pre.store = NoItem THEN 2 ELSE 1
    /\ AllConsistent(LocalNow) /\ AllConsistent(StoredDoc(store))

\* the task created in this run, completed, is uncompleted
C18_Witness ==
    /\ Done("uncompleteTask") /\ last.arg = 2
    /\ LifeBefore.completed /\ Has(LifeBefore, "completedAt")
    /\ ~LifeCached.completed /\ ~Has(LifeCached, "completedAt")

\* an update of an id the Document does not hold
AbsentUpdate ==
    /\ LocalBefore # Null
    /\ \/ last.op = "updateTask" /\ FindIndex(LocalBefore.tasks, last.arg.id) = 0
       \/ last.op = "updateProject" /\ FindIndex(LocalBefore.projects, last.arg) = 0
       \/ last.op = "updateTag" /\ FindIndex(LocalBefore.tags, last.arg) = 0
NotFound ==
    CASE last.op = "updateTask" -> "Task not found"
      [] last.op = "updateProject" -> "Project not found"
      [] last.op = "updateTag" -> "Tag not found"
\* no call to the backing medium was rejected
NoRejection == LastCall \notin {"getItem!", "setItem!"}

\* C19: updateTask, updateProject and updateTag of an id the Document does
\* not hold fail, with the not-found error unless the load itself failed, and
\* leave the Document as it was: the only write there can be is the load's
\* creation of a missing backing entry holding the empty Document.
C19_AbsentIdIsNotFound ==
    AbsentUpdate =>
        /\ last.err # NoErr
        /\ NoRejection => last.err = NotFound
        /\ LocalNow = LocalBefore
        /\ \/ store = last.pre.store
           \/ /\ last.pre.cache = Null /\ last.pre.store = NoItem
              /\ store = JSONstringify(getEmptyData)

\* a Document with tasks, and an id none of them carries
C19_Witness ==
    /\ AbsentUpdate /\ last.op = "updateTask"
    /\ last.err = "Task not found"
    /\ LocalBefore.tasks # <<>>
    /\ last.calls = <<>>

\* C20: deleteTask of an id the Document does not hold returns without
\* error unless the backing medium rejects a call, and leaves the tasks,
\* projects and tags that getData() serves as they were; a deleteTask that
\* returned leaves the other tasks as they were, in their order, and a
\* second deleteTask of the same id returns and leaves cache and backing
\* entry as the first left them.
C20_DeleteIsIdempotent ==
    /\ (last.op = "deleteTask" /\ LocalBefore # Null
        /\ FindIndex(LocalBefore.tasks, last.arg) = 0) =>
          /\ NoRejection => last.err = NoErr
          /\ Collections(LocalNow) = Collections(LocalBefore)
          /\ last.err = NoErr =>
                Collections(StoredDoc(store)) = Collections(LocalBefore)
    /\ Done("deleteTask") =>
          LET again == deleteTask(World(0), last.arg)
          IN /\ cache.tasks = SelectSeq(LocalBefore.tasks, LAMBDA t : t.id # last.arg)
             /\ StoredDoc(store) = cache
             /\ Ok(again)
             /\ again.cache = cache
             /\ again.store = store

\* a task is deleted from a Document that holds another one
C20_Witness ==
    /\ Done("deleteTask") /\ HasTask(LocalBefore, last.arg)
    /\ cache.tasks # <<>>
    /\ Len(cache.tasks) = Len(LocalBefore.tasks) - 1


\* the instant now - days*86400000 of an archiveOldCompletedTasks(days) call
CutoffOf == now - (last.arg * 24 * 60 * 60 * 1000)
\* older than the cutoff: completed, with a completedAt before it
OlderThanCutoff(t) ==
    t.completed /\ Has(t, "completedAt") /\ t.completedAt < CutoffOf

\* C21: archiveOldCompletedTasks(days) removes exactly the tasks that are
\* completed with a completedAt older than now - days*86400000, keeps every
\* other task unchanged (a task completed at the cutoff included), and
\* returns the number of tasks it removed.
C21_ArchiveRemovesOlderOnly ==
    Done("archiveOldCompletedTasks") =>
        /\ cache.tasks = SelectSeq(LocalBefore.tasks, LAMBDA t : ~OlderThanCutoff(t))
        /\ StoredDoc(store).tasks = cache.tasks
        /\ last.ret = Len(LocalBefore.tasks) - Len(cache.tasks)


\* the task refers to the project
InProject(task, projectId) == Has(task, "projectId") /\ task.projectId = projectId

\* C22: a deleteProject(id) that returned removed the project with that id
\* and no other, deleted no task, left every task that referred to it with
\* no projectId (and a new updatedAt), and left every other task as it was;
\* no task refers to the deleted id.
C22_DeleteProjectClearsReferences ==
    Done("deleteProject") =>
        /\ cache.projects =
              SelectSeq(LocalBefore.projects, LAMBDA p : p.id # last.arg)
        /\ Len(cache.projects) >= Len(LocalBefore.projects) - 1
        /\ Len(cache.tasks) = Len(LocalBefore.tasks)
        /\ \A i \in 1..Len(cache.tasks) :
              cache.tasks[i] =
                 IF InProject(LocalBefore.tasks[i], last.arg)
                 THEN Spread(LocalBefore.tasks[i], [updatedAt |-> now], {"projectId"})
                 ELSE LocalBefore.tasks[i]
        /\ \A i \in 1..Len(cache.tasks) : ~InProject(cache.tasks[i], last.arg)
        /\ StoredDoc(store) = cache

\* the project of two tasks is deleted, another task is in another project
C22_Witness ==
    /\ Done("deleteProject")
    /\ Len(cache.projects) = Len(LocalBefore.projects) - 1
    /\ \E i, j, k \in 1..Len(cache.tasks) :
          /\ i # j
          /\ InProject(LocalBefore.tasks[i], last.arg)
          /\ InProject(LocalBefore.tasks[j], last.arg)
          /\ Has(cache.tasks[k], "projectId")

\* C23: a deleteTag(id) that returned removed the tag with that id, deleted
\* no task, left every task that carried the id with the same tagIds less
\* that id, in their order (and a new updatedAt), and left every other task
\* as it was; no task's tagIds holds the deleted id.
C23_DeleteTagClearsReferences ==
    Done("deleteTag") =>
        /\ cache.tags = SelectSeq(LocalBefore.tags, LAMBDA t : t.id # last.arg)
        /\ Len(cache.tasks) = Len(LocalBefore.tasks)
        /\ \A i \in 1..Len(cache.tasks) :
              cache.tasks[i] =
                 IF Includes(LocalBefore.tasks[i].tagIds, last.arg)
                 THEN [LocalBefore.tasks[i] EXCEPT
                          !.tagIds = WithoutId(@, last.arg), !.updatedAt = now]
                 ELSE LocalBefore.tasks[i]
        /\ \A i \in 1..Len(cache.tasks) : ~Includes(cache.tasks[i].tagIds, last.arg)
        /\ StoredDoc(store) = cache

\* a tag is deleted that a task carried together with another one
C23_Witness ==
    /\ Done("deleteTag")
    /\ Len(cache.tags) = Len(LocalBefore.tags) - 1
    /\ \E i \in 1..Len(cache.tasks) :
          /\ Includes(LocalBefore.tasks[i].tagIds, last.arg)
          /\ cache.tasks[i].tagIds # <<>>
    /\ \E i \in 1..Len(cache.tasks) : LocalBefore.tasks[i].tagIds = <<>>


\* no two tags of Document d have names that are equal ignoring case
UniqueTagNames(d) ==
    d # Null =>
        \A i, j \in 1..Len(d.tags) :
            i # j => toLowerCase(d.tags[i].name) # toLowerCase(d.tags[j].name)

\* C24: after any run of createTag, updateTag with any partial, deleteTag
\* and getOrCreateTag, no two tags of the Document, in the cache or in the
\* backing entry, have names that are equal ignoring case.
C24_TagNamesUnique ==
    UniqueTagNames(LocalNow) /\ UniqueTagNames(StoredDoc(store))

\* the names that differ from name only in case
SameIgnoringCase(name) ==
    {n \in {"work", "Work", "WORK", "home", "Home", "HOME", "new", ""} :
        toLowerCase(n) = toLowerCase(name)}
\* the Document held a tag of that name, ignoring case
TagExisted ==
    \E i \in 1..Len(LocalBefore.tags) :
        toLowerCase(LocalBefore.tags[i].name) = toLowerCase(last.arg)

\* C25: getOrCreateTag(name) returns the tag whose name equals name ignoring
\* case and leaves the Document as it was when there is one, and otherwise,
\* when it returns, has appended exactly one tag, of that name and with a new
\* id; a second call with a name that differs only in case returns the tag
\* of the first call and adds nothing.
C25_GetOrCreateTag ==
    last.op = "getOrCreateTag" =>
        /\ TagExisted =>
              /\ NoRejection =>
                    /\ last.err = NoErr
                    /\ \E i \in 1..Len(LocalBefore.tags) :
                          last.ret = LocalBefore.tags[i]
                    /\ toLowerCase(last.ret.name) = toLowerCase(last.arg)
              /\ LocalNow = LocalBefore
              /\ StoredDoc(store) = StoredDoc(last.pre.store)
        /\ (~TagExisted /\ last.err = NoErr) =>
              /\ cache.tags = Append(LocalBefore.tags, last.ret)
              /\ last.ret.name = last.arg
              /\ \A i \in 1..Len(LocalBefore.tags) :
                    LocalBefore.tags[i].id # last.ret.id
              /\ StoredDoc(store) = cache
        /\ last.err = NoErr =>
              \A n \in SameIgnoringCase(last.arg) :
                  LET again == getOrCreateTag(World(0), n)
                  IN /\ Ok(again)
                     /\ again.ret.id = last.ret.id
                     /\ again.cache = cache
                     /\ again.store = store

\* the tag "Work" is asked for as "WORK"
C25_Witness ==
    /\ Done("getOrCreateTag") /\ TagExisted
    /\ last.arg = "WORK" /\ last.ret.name = "Work"
    /\ Len(cache.tags) = Len(LocalBefore.tags)

\* C26: every task of the Document has a non-empty title and every project
\* and tag a non-empty name; createTask without a title or with an empty one
\* fails and leaves the Document as it was, and so do createProject and
\* createTag without a name or with an empty one.
C26_EmptyTitleRejected ==
    /\ LocalNow # Null =>
          /\ \A i \in 1..Len(LocalNow.tasks) : LocalNow.tasks[i].title # ""
          /\ \A i \in 1..Len(LocalNow.projects) : LocalNow.projects[i].name # ""
          /\ \A i \in 1..Len(LocalNow.tags) : LocalNow.tags[i].name # ""
    /\ (\/ last.op = "createTask" /\ StrOr(last.arg, "title", "") = ""
        \/ last.op \in {"createProject", "createTag"}
           /\ StrOr(last.arg, "name", "") = "") =>
          /\ last.err # NoErr
          /\ LocalNow = LocalBefore


\* C27: an updateTask(id, partial) that returned, whatever the partial holds,
\* an id included, returns and stores a task whose id is id in the place of
\* the task it was called on, and leaves every other task and the number of
\* tasks as they were.
C27_IdIsImmutable ==
    Updated =>
        LET taskIndex == FindIndex(LocalBefore.tasks, last.arg.id)
        IN /\ last.ret.id = last.arg.id
           /\ Len(cache.tasks) = Len(LocalBefore.tasks)
           /\ cache.tasks[taskIndex] = last.ret
           /\ \A i \in 1..Len(cache.tasks) :
                 i # taskIndex => cache.tasks[i] = LocalBefore.tasks[i]
           /\ StoredDoc(store).tasks = cache.tasks

\* the partial carries the id of another task of the Document
C27_Witness ==
    /\ Updated
    /\ Has(last.arg.updates.set, "id")
    /\ last.arg.updates.set.id # last.arg.id
    /\ HasTask(LocalBefore, last.arg.updates.set.id)
    /\ last.ret.title = last.arg.updates.set.title


\* the Documents that hold the entities of d, each collection in any order
Reordered(d) ==
    {[d EXCEPT !.tasks = ts, !.projects = ps, !.tags = gs] :
        ts \in Reorderings(d.tasks), ps \in Reorderings(d.projects),
        gs \in Reorderings(d.tags)}

\* C28: the digest that getSyncMetadata() returns and updateSyncMetadata()
\* stores for a Document is the digest of every Document that holds the same
\* tasks, projects and tags in another order.
C28_HashIgnoresOrder ==
    /\ Done("getSyncMetadata") =>
          \A d \in Reordered(LocalBefore) : calculateHash(d) = last.ret.syncHash
    /\ Done("updateSyncMetadata") =>
          \A d \in Reordered(LocalBefore) : calculateHash(d) = cache.syncHash

\* three tasks and two projects, neither in the order of their ids
C28_Witness ==
    /\ Done("getSyncMetadata")
    /\ Len(LocalBefore.tasks) = 3
    /\ LocalBefore.tasks[1].id > LocalBefore.tasks[2].id
    /\ Len(LocalBefore.projects) = 2
    /\ LocalBefore.projects[1].id > LocalBefore.projects[2].id
    /\ last.ret.syncHash.tasks # LocalBefore.tasks


\* the local midnight that begins the day of the call, in the call's zone,
\* and the n-th midnight after it
MidnightToday ==
    (((now + last.arg) \div (24 * 60 * 60 * 1000)) * (24 * 60 * 60 * 1000)) - last.arg
MidnightAfter(n) == MidnightToday + (n * 24 * 60 * 60 * 1000)
\* the task is due at or after the instant from and before the instant to
DueWithin(t, from, to) == HasDueDate(t) /\ from <= t.dueDate /\ t.dueDate < to

\* C29 as stated: getTodayTasks() returns the tasks due in [midnight-today,
\* midnight-tomorrow), getTomorrowTasks() those due in [midnight-tomorrow,
\* midnight-dayAfter), getOverdueTasks() those not completed and due before
\* midnight-today; a task with no due date is in none of them.
C29_ViewsAsStated ==
    /\ Done("getTodayTasks") =>
          last.ret = SelectSeq(LocalBefore.tasks,
                               LAMBDA t : DueWithin(t, MidnightToday, MidnightAfter(1)))
    /\ Done("getTomorrowTasks") =>
          last.ret = SelectSeq(LocalBefore.tasks,
                               LAMBDA t : DueWithin(t, MidnightAfter(1), MidnightAfter(2)))
    /\ Done("getOverdueTasks") =>
          last.ret = SelectSeq(LocalBefore.tasks,
                               LAMBDA t : ~t.completed /\ HasDueDate(t)
                                          /\ t.dueDate < MidnightToday)

\* C29, amended: getTodayTasks() returns the tasks that are not completed
\* and due in [midnight-today, midnight-tomorrow), getTomorrowTasks() those
\* not completed and due in [midnight-tomorrow, midnight-dayAfter),
\* getOverdueTasks() those not completed and due before midnight-today; a
\* task with no due date is in none of them, and the Document is not changed.
C29_ViewsOfOpenTasks ==
    /\ Done("getTodayTasks") =>
          last.ret = SelectSeq(LocalBefore.tasks,
                               LAMBDA t : ~t.completed
                                          /\ DueWithin(t, MidnightToday, MidnightAfter(1)))
    /\ Done("getTomorrowTasks") =>
          last.ret = SelectSeq(LocalBefore.tasks,
                               LAMBDA t : ~t.completed
                                          /\ DueWithin(t, MidnightAfter(1), MidnightAfter(2)))
    /\ Done("getOverdueTasks") =>
          last.ret = SelectSeq(LocalBefore.tasks,
                               LAMBDA t : ~t.completed /\ HasDueDate(t)
                                          /\ t.dueDate < MidnightToday)
    /\ last.op \in {"getTodayTasks", "getTomorrowTasks", "getOverdueTasks"} =>
          /\ LocalNow = LocalBefore
          /\ last.err = NoErr =>
                \A i \in 1..Len(last.ret) : HasDueDate(last.ret[i])

\* asked at a local midnight with tasks due a millisecond before it, at it,
\* a millisecond before the next one and at the next one: the view holds the
\* second and the third and neither of the others
C29_Witness ==
    /\ Done("getTodayTasks") /\ now = MidnightToday
    /\ \E i, j \in 1..Len(last.ret) :
          /\ last.ret[i].dueDate = MidnightToday
          /\ last.ret[j].dueDate = MidnightAfter(1) - 1
    /\ \E i, j \in 1..Len(LocalBefore.tasks) :
          /\ NumOr(LocalBefore.tasks[i], "dueDate", 0) = MidnightToday - 1
          /\ NumOr(LocalBefore.tasks[j], "dueDate", 0) = MidnightAfter(1)
    /\ \A i \in 1..Len(last.ret) :
          last.ret[i].dueDate \notin {MidnightToday - 1, MidnightAfter(1)}


\* the weekdays a title names in either language, 0 for Monday to 6 for
\* Sunday, and whether it has a word for today or tomorrow
NamedWeekdays(title) ==
    {t \in 0..6 : \E i \in 1..Len(title) :
        toLowerCase(title[i]) \in {WEEKDAYS_DE[t + 1], WEEKDAYS_EN[t + 1]}}
NamesToday(title) ==
    \E i \in 1..Len(title) :
        toLowerCase(title[i]) \in {"heute", "today", "morgen", "tomorrow"}
\* the number of the local day an instant falls on, counted from the epoch,
\* and its weekday: the epoch was a Thursday
LocalDay(t, tz) == (t + tz) \div (24 * 60 * 60 * 1000)
WeekdayOf(t, tz) == (LocalDay(t, tz) + 3) % 7
\* parseTaskTitle returned, for a title that names weekdays and neither today
\* nor tomorrow
WeekdayParsed ==
    /\ Done("parseTaskTitle")
    /\ NamedWeekdays(last.arg.title) # {}
    /\ ~NamesToday(last.arg.title)
\* the detected date lies d local days after the day of the call
DaysAhead(d) ==
    /\ Has(last.ret, "detectedDate")
    /\ LocalDay(last.ret.detectedDate, last.arg.tz) = LocalDay(now, last.arg.tz) + d

\* C30: for every current weekday c and every weekday name t the title is
\* matched on, in German or in English, the detected date lies d days after
\* today with 1 <= d <= 7 and (c + d) mod 7 = t; when t is today's weekday
\* the date is 7 days ahead, never today.
C30_NextFutureWeekday ==
    WeekdayParsed =>
        LET c == WeekdayOf(now, last.arg.tz)
        IN /\ \E t \in NamedWeekdays(last.arg.title), d \in 1..7 :
                 (c + d) % 7 = t /\ DaysAhead(d)
           /\ NamedWeekdays(last.arg.title) = {c} => DaysAhead(7)

\* a title naming today's weekday and no other, parsed a week ahead
C30_Witness ==
    /\ WeekdayParsed
    /\ NamedWeekdays(last.arg.title) = {WeekdayOf(now, last.arg.tz)}
    /\ DaysAhead(7)


\* a title with a character that is not white space
NonBlank(title) == \E i \in 1..Len(title) : title[i] # " "
\* the title has one of the words the parser looks for
NamesDate(title) == NamesToday(title) \/ NamedWeekdays(title) # {}
\* nothing but keywords of the one kind the parser removes and white space:
\* removing the matched keyword leaves nothing
OnlyKeywords(title) ==
    /\ NamesDate(title)
    /\ \/ \A i \in 1..Len(title) : toLowerCase(title[i]) \in {" ", "heute", "today"}
       \/ \A i \in 1..Len(title) : toLowerCase(title[i]) \in {" ", "morgen", "tomorrow"}
       \/ \E t \in 1..7 : \A i \in 1..Len(title) :
             toLowerCase(title[i]) \in {" ", WEEKDAYS_DE[t]}
       \/ \E t \in 1..7 : \A i \in 1..Len(title) :
             toLowerCase(title[i]) \in {" ", WEEKDAYS_EN[t]}
\* the title with each run of white space made one space and none at the ends
Normalized(title) ==
    LET kept == {i \in 1..Len(title) :
                    \/ title[i] # " "
                    \/ /\ \E j \in 1..(i - 1) : title[j] # " "
                       /\ i < Len(title) /\ title[i + 1] # " "}
        nth(k) == CHOOSE i \in kept : Cardinality({j \in kept : j < i}) = k - 1
    IN [k \in 1..Cardinality(kept) |-> title[nth(k)]]

Trimmed(title) ==
    LET inked == {i \in 1..Len(title) : title[i] # " "}
    IN [k \in 1..Cardinality({i \in 1..Len(title) :
                    (\E j \in inked : j <= i) /\ (\E j \in inked : i <= j)}) |->
            title[k + Cardinality({i \in 1..Len(title) : \A j \in inked : i < j})]]

C32_FailedConfigureConfiguresNothing ==
    (last.op = "initialize" /\ InCalls("exists!")) =>
        IF last.pre.client = Null /\ last.pre.config = Null
        THEN ~isConfigured(World(0)) /\ getConfig(World(0)) = Null
        ELSE client = last.pre.client /\ config = last.pre.config


\* C35: between handlers, whenever the cache is set, the cached Document is
\* the Document serialized in the backing entry, after any sequence of
\* loads, saves, imports, clears, service mutations and syncs, failed writes
\* to the backing store included.
C35_CacheIsTheStoredDocument ==
    cache # Null => (JSONparses(store) /\ JSONparse(store) = cache)


\* C36: right after a sync() that returns success, the local tasks, projects
\* and tags, in the cache and in the backing entry, are those of the remote
\* file, and the local syncHash is calculateHash of the local Document.
C36_SyncedLocalEqualsRemote ==
    (last.op = "sync" /\ last.err = NoErr /\ last.ret.success) =>
        /\ JSONparses(remote)
        /\ cache # Null
        /\ Collections(cache) = Collections(JSONparse(remote))
        /\ Collections(StoredDoc(store)) = Collections(JSONparse(remote))
        /\ Has(cache, "syncHash") /\ cache.syncHash = calculateHash(cache)
        /\ Has(StoredDoc(store), "syncHash")
        /\ StoredDoc(store).syncHash = calculateHash(StoredDoc(store))

\* a sync that downloaded the task of another device
C36_Witness ==
    /\ SyncReturned(SyncDownloaded)
    /\ cache.tasks = <<Task9>>
    /\ JSONparse(remote).tasks = <<Task9>>
    /\ cache.syncHash = calculateHash(cache)


\* a handler of that device before the last one was op and succeeded
Earlier(dev, op) ==
    \E i \in 1..(Len(trace) - 1) :
        trace[i].dev = dev /\ trace[i].op = op /\ trace[i].ok

\* C38: of two successful sync() calls of one device with nobody else writing
\* the remote file in between, the second uploads, and the local tasks,
\* projects and tags after it are those before it, whatever lastSync the
\* remote Document carries, one ahead of the local clock included.
C38_ResyncKeepsLocalEdits ==
    (SyncReturned(SyncInitial) \/ SyncReturned(SyncDownloaded)
        \/ SyncReturned(SyncUploaded)) /\ Earlier("this", "sync") =>
        /\ last.ret = SyncUploaded
        /\ Collections(LocalNow) = Collections(LocalBefore)
        /\ Collections(StoredDoc(store)) = Collections(LocalBefore)


\* the Document B's getData() serves
PeerNow == DocOf(peer.cache, peer.store)
\* A edited and then synced with success, right before the last handler; B's
\* last successful sync before that was followed by no handler of B at all
\* until the last one, which is B's
AThenB ==
    /\ Len(trace) >= 3
    /\ trace[Len(trace)].dev = "B"
    /\ trace[Len(trace) - 1] = [dev |-> "A", op |-> "sync", ok |-> TRUE]
    /\ \E e \in 1..(Len(trace) - 2) :
          trace[e] = [dev |-> "A", op |-> "createTask", ok |-> TRUE]
    /\ \E j \in 1..(Len(trace) - 2) :
          /\ trace[j] = [dev |-> "B", op |-> "sync", ok |-> TRUE]
          /\ \A k \in (j + 1)..(Len(trace) - 1) : trace[k].dev = "A"

\* C37: A edits its Document and completes a successful sync(); B, which has
\* made no local change since its own last successful sync, earlier than
\* A's, then runs sync(): B's sync downloads, B's tasks, projects and tags
\* become A's, and the remote file A uploaded is not overwritten.
C37_ChangesReachTheOtherDevice ==
    (last.op = "sync" /\ last.err = NoErr /\ last.ret.success /\ AThenB) =>
        /\ last.ret = SyncDownloaded
        /\ Collections(PeerNow) = Collections(LocalNow)
        /\ remote = last.pre.remote


\* the step op was taken, and the last step named by one of ops came later
Before(op, ops) ==
    \E i, j \in 1..Len(trace) :
        /\ i < j
        /\ trace[i].op = op
        /\ trace[j].op \in ops

\* C33: disconnect() called while the constructor's loadAndInitialize() is
\* in flight, its read of the stored configuration or its probe pending:
\* once both have finished, isConfigured() is false, getConfig() is null and
\* no configuration is stored.
C33_DisconnectWinsOverStartUp ==
    (/\ flight.boot = "done" /\ flight.disconnect = "done"
     /\ Before("disconnect", {"loadAndInitialize.getItem", "loadAndInitialize.exists"})
     /\ \A i \in 1..Len(trace) : trace[i].op = "disconnect.removeItem" => trace[i].ok) =>
        /\ ~isConfigured(World(0))
        /\ getConfig(World(0)) = Null
        /\ configStore = NoItem


\* the Document holds a task of that title
HasTitled(d, title) ==
    d # Null /\ \E i \in 1..Len(d.tasks) : d.tasks[i].title = title
\* both createTask calls have returned a task
BothCreated ==
    \A c \in RaceCalls : flight.calls[c].pc = "done"
\* the second call was made before the first had returned
Overlapped ==
    \E i, j \in 1..Len(trace) :
        /\ i < j
        /\ trace[j].op = "createTask"
        /\ trace[i].dev # trace[j].dev
        /\ \A k \in 1..j : ~(trace[k].dev = trace[i].dev /\ trace[k].op = "saveData.setItem")

\* C34: two createTask calls issued without awaiting the first, in every
\* interleaving of their awaits, with a warm cache and with a cold one: after
\* both complete, the Document in the cache and the one in the backing store
\* hold the task of each.
C34_NoLostUpdate ==
    BothCreated /\ Overlapped =>
        \A c \in RaceCalls :
            /\ HasTitled(cache, TaskDataOf(c).title)
            /\ HasTitled(StoredDoc(store), TaskDataOf(c).title)


\* createTask returned its task after sync() was called and before sync()
\* returned success
CreatedMidSync ==
    /\ flight.calls["s"].pc = "done"
    /\ \E i, j, k \in 1..Len(trace) :
          /\ i < j /\ j < k
          /\ trace[i].op = "sync"
          /\ trace[j] = [dev |-> "p", op |-> "saveData.setItem", ok |-> TRUE]
          /\ trace[k] = [dev |-> "s", op |-> "sync.updateSyncMetadata", ok |-> TRUE]

\* C39: a createTask that returns successfully between the moment sync() read
\* the local Document and the moment sync() returns success is not lost:
\* after sync() returns, the task is in the local Document or in the remote
\* file.
C39_MutationMidSyncIsKept ==
    CreatedMidSync =>
        \/ HasTitled(cache, "b")
        \/ HasTitled(StoredDoc(store), "b")
        \/ JSONparses(remote) /\ HasTitled(JSONparse(remote), "b")


====
